---- MODULE Spec2Model ----
(***************************************************************************)
(* Model of the AIPool request dispatcher (src/src/lib/pool.ts): a         *)
(* concurrency-limited executor of inference calls with a global adaptive  *)
(* backoff window and a per-call retry loop.                               *)
(*                                                                         *)
(* The program is single-threaded JavaScript: every action below is one    *)
(* run-to-completion step between two awaits.  Each submitted task is an   *)
(* asynchronous chain enqueue -> runTask -> executeWithRetry; pc[t] is the *)
(* await at which task t is suspended.  Time is Date.now() in ms.          *)
(***************************************************************************)
EXTENDS Integers, Sequences, FiniteSets, TLC

(***************************************************************************)
(* Bounds of the model.                                                    *)
(***************************************************************************)
NumTasks == 3            \* submissions made by the callers
MaxFaults == 2           \* errors the inference service answers in one run
MaxTicks == 1            \* the clock is observed at 0 .. MaxTicks * TickMs

Tasks == 1..NumTasks

(***************************************************************************)
(* Program constants.                                                      *)
(***************************************************************************)
DefaultBaseDelayMs == 1000   \* config.baseDelayMs ?? 1000
MaxBackoffMs == 60000        \* cap of the global backoff

TickMs == DefaultBaseDelayMs

\* The configurations the constructor is given: <<maxConcurrency,
\* maxRetries, baseDelayMs>>.  With the long base delay the first backoff
\* already exceeds the cap.
LongBaseDelayMs == 40 * DefaultBaseDelayMs
Configs ==
  ({1, 2} \X {1, 2} \X {DefaultBaseDelayMs})
    \cup { <<3, 1, DefaultBaseDelayMs>> }
    \cup ({1, 2} \X {1} \X {LongBaseDelayMs})

(***************************************************************************)
(* Errors thrown by the inference call.  status 0 stands for an error      *)
(* object without status/statusCode; msg is error.message.                 *)
(***************************************************************************)
NoError == [status |-> 0, msg |-> ""]

\* What a successful call returns (result.object).
Response == [status |-> 200, msg |-> "object"]

ErrorShapes ==
  { [status |-> 429, msg |-> "Too Many Requests"],
    [status |-> 503, msg |-> "Service Unavailable"],
    [status |-> 0,   msg |-> "request timeout"],
    [status |-> 400, msg |-> "invalid schema"] }

\* String.prototype.includes on the lower-cased message, for the messages above.
LowerIncludes(msg, needle) ==
  \/ msg = "Too Many Requests" /\ needle = "too many requests"
  \/ msg = "request timeout" /\ needle = "timeout"

\* String.prototype.includes on the message as is.
Includes(msg, needle) ==
  msg = "request timeout" /\ needle = "timeout"

isRateLimitError(e) ==
  \/ LowerIncludes(e.msg, "rate limit")
  \/ LowerIncludes(e.msg, "429")
  \/ LowerIncludes(e.msg, "too many requests")
  \/ LowerIncludes(e.msg, "quota")
  \/ e.status = 429

\* Variant: every status from 400 up is retried.
isRetryableErrorFrom400(e) ==
  \/ (e.status >= 400 /\ e.status < 600)
  \/ Includes(e.msg, "timeout")
  \/ Includes(e.msg, "ECONNRESET")
  \/ Includes(e.msg, "ETIMEDOUT")

isRetryableError(e) ==
  \/ (e.status >= 500 /\ e.status < 600)
  \/ Includes(e.msg, "timeout")
  \/ Includes(e.msg, "ECONNRESET")
  \/ Includes(e.msg, "ETIMEDOUT")

RECURSIVE Pow2(_)
Pow2(n) == IF n <= 0 THEN 1 ELSE 2 * Pow2(n - 1)

Min(a, b) == IF a < b THEN a ELSE b

VARIABLES
  maxConcurrency, maxRetries, baseDelayMs,     \* this.config
  inFlight, queue, globalBackoffUntil, consecutiveRateLimits,
  now,                                         \* Date.now()
  pc, attempt, lastError, wake, outcome,       \* per task
  nRateLimited, nTransient,                    \* per task: errors met so far
  lastAnswer,                                  \* per task: what its last call threw
  ticket,                                      \* per task: its turn in the queue, 0 if never queued
  faults,                                      \* errors answered by the service so far
  runs,                                        \* two executions of the pool with usage statistics
  \* detectAndVerifyRegion, per region of the run:
  maxVerifyRounds,                             \* options.maxVerifyRounds
  rpc,                                         \* the await at which it is suspended
  instances, round,                            \* its locals
  overlay,                                     \* instances drawn on the last verification image
  result,                                      \* what it returned
  exit,                                        \* how it came to return
  verifyCalls,                                 \* verify calls issued so far
  before, verification, afterApply,            \* the last round: its input, its response, its outcome before dedup
  kindGroups, allVerified,                     \* detectWithVerification: the groups still to verify, the verified ones
  \* runDetection, the processing of the kinds:
  quadrantResults,                             \* per quadrant of a kind: what its callback returned
  kindResults,                                 \* per kind: how its callback settled
  allObjects,                                  \* the objects of the run
  runPc,                                       \* where runDetection stands
  \* the tilers: adaptiveSubdivide and RecursiveDetector.processNode
  tiler,                                       \* which of the two is running
  maxDepth,                                    \* options.maxDepth, config.maxDepth
  minTileSize,                                 \* config.minTileSize
  pendingTiles, finalTiles,                    \* adaptiveSubdivide: its two lists
  tile,                                        \* adaptiveSubdivide: the tile whose count is being estimated
  failedTiles,                                 \* adaptiveSubdivide: labels of the tiles whose estimate failed
  nodes,                                       \* processNode: the calls made so far, by path
  zooms,                                       \* processNode: discoveries that asked to zoom in
  nodeResults,                                 \* RecursiveDetector: this.results
  \* runDetection, the discovery of the kinds:
  maxKinds, multiScaleDiscovery,               \* config
  discoveryPc,                                 \* where the discovery stands
  fullImageKinds,                              \* what discoverKinds returned for the full image
  quadrantDiscoveries,                         \* per quadrant: what its callback returned
  reconciledKinds,                             \* what reconcileKinds returned
  candidateKinds,                              \* the kinds of the last answer before the cut to maxKinds
  \* the geometry kernel and the post-processor, as functions:
  kernelOp,                                    \* the function applied
  kernelIn,                                    \* its argument
  kernelOut                                    \* what it returned

poolVars == << maxConcurrency, maxRetries, baseDelayMs,
               inFlight, queue, globalBackoffUntil, consecutiveRateLimits,
               now, pc, attempt, lastError, wake, outcome,
               nRateLimited, nTransient, lastAnswer, ticket, faults >>

usageVars == << runs >>

detectorVars == << maxVerifyRounds, rpc, instances, round, overlay, result,
                   exit, verifyCalls, before, verification, afterApply,
                   kindGroups, allVerified >>

runVars == << quadrantResults, kindResults, allObjects, runPc >>

tilerVars == << tiler, maxDepth, minTileSize, pendingTiles, finalTiles, tile,
                failedTiles, nodes, zooms, nodeResults >>

discoveryVars == << maxKinds, multiScaleDiscovery, discoveryPc, fullImageKinds,
                    quadrantDiscoveries, reconciledKinds, candidateKinds >>

kernelVars == << kernelOp, kernelIn, kernelOut >>

vars == << poolVars, usageVars, detectorVars, runVars, tilerVars, discoveryVars,
           kernelVars >>

\* The variables the dispatcher of pool.ts does not touch.
beyondPool == << usageVars, detectorVars, runVars, tilerVars, discoveryVars, kernelVars >>

\* No Region Detector has been started.
DetectorAtRest ==
  /\ maxVerifyRounds = 0
  /\ rpc = << >>
  /\ instances = << >>
  /\ round = << >>
  /\ overlay = << >>
  /\ result = << >>
  /\ exit = << >>
  /\ verifyCalls = << >>
  /\ before = << >>
  /\ verification = << >>
  /\ afterApply = << >>
  /\ kindGroups = << >>
  /\ allVerified = << >>

\* runDetection has not been called.
RunAtRest ==
  /\ quadrantResults = << >>
  /\ kindResults = << >>
  /\ allObjects = << >>
  /\ runPc = "idle"

\* A tile that is none.
NoTile == [label |-> << >>]

\* No tiler has been started.
TilerAtRest ==
  /\ tiler = "none"
  /\ maxDepth = 0
  /\ minTileSize = 0
  /\ pendingTiles = << >>
  /\ finalTiles = << >>
  /\ tile = NoTile
  /\ failedTiles = {}
  /\ nodes = << >>
  /\ zooms = 0
  /\ nodeResults = << >>

\* The discovery of the kinds has not been started.
DiscoveryAtRest ==
  /\ maxKinds = 0
  /\ multiScaleDiscovery = FALSE
  /\ discoveryPc = "idle"
  /\ fullImageKinds = << >>
  /\ quadrantDiscoveries = << >>
  /\ reconciledKinds = << >>
  /\ candidateKinds = << >>

\* No function of the kernel has been applied.
KernelAtRest ==
  /\ kernelOp = "none"
  /\ kernelIn = << >>
  /\ kernelOut = << >>

config == << maxConcurrency, maxRetries, baseDelayMs >>

\* new InferencePool(config), for a configuration of cs; nothing else used.
Constructed(cs) ==
  /\ \E c \in cs :
       /\ maxConcurrency = c[1]
       /\ maxRetries = c[2]
       /\ baseDelayMs = c[3]
  /\ inFlight = 0
  /\ queue = << >>
  /\ globalBackoffUntil = 0
  /\ consecutiveRateLimits = 0
  /\ now = 0
  /\ pc = [t \in Tasks |-> "idle"]
  /\ attempt = [t \in Tasks |-> 0]
  /\ lastError = [t \in Tasks |-> NoError]
  /\ wake = [t \in Tasks |-> 0]
  /\ outcome = [t \in Tasks |-> NoError]
  /\ nRateLimited = [t \in Tasks |-> 0]
  /\ nTransient = [t \in Tasks |-> 0]
  /\ lastAnswer = [t \in Tasks |-> NoError]
  /\ ticket = [t \in Tasks |-> 0]
  /\ faults = 0
  /\ runs = << >>
  /\ DetectorAtRest
  /\ RunAtRest
  /\ TilerAtRest
  /\ DiscoveryAtRest
  /\ KernelAtRest

Init == Constructed(Configs)

(***************************************************************************)
(* Pieces of the methods, one operator per expression of the source.       *)
(***************************************************************************)

\* Variant: the capacity test is off by one.
HasCapacityInclusive(n) == n <= maxConcurrency

\* enqueue: if (this.inFlight < this.config.maxConcurrency)
HasCapacity(n) == n < maxConcurrency

\* Variant: the task is put at the front of the queue (unshift).
QueueUnshift(q, t) == << t >> \o q

\* enqueue: this.queue.push(task)
QueuePush(q, t) == Append(q, t)

\* Variant: processQueue runs before the in-flight count is decremented.
ProcessQueueGuardBeforeDecrement(q, n, time, until) ==
  /\ Len(q) # 0
  /\ ~(n + 1 >= maxConcurrency)
  /\ ~(time < until)

\* processQueue: the three early returns
ProcessQueueGuard(q, n, time, until) ==
  /\ Len(q) # 0
  /\ ~(n >= maxConcurrency)
  /\ ~(time < until)

\* Variant: the task is taken from the back of the queue (pop).
QueuePop(q) == [task |-> q[Len(q)], rest |-> SubSeq(q, 1, Len(q) - 1)]

\* processQueue: const task = this.queue.shift()
QueueShift(q) == [task |-> Head(q), rest |-> Tail(q)]

\* Variant: the sleep ends a tick after it began.
WaitForBackoffWakeEarly(time, until) ==
  IF time < until THEN time + TickMs ELSE 0

\* waitForBackoff: the time the sleep ends, 0 when it does not sleep
\* (the await then resumes in the same turn of the event loop)
WaitForBackoffWake(time, until) ==
  IF time < until THEN time + (until - time) ELSE 0

\* Variant: the decrement of a completing task is lost.
InFlightDecrementLost(n) == n

\* runTask: this.inFlight-- in the finally block
InFlightDecrement(n) == n - 1

\* Variant: the exponent is the counter before its increment.
BackoffMsStale(counter) ==
  Min(baseDelayMs * Pow2(counter - 1), MaxBackoffMs)

\* applyRateLimitBackoff: backoffMs, for the counter after its increment
BackoffMs(counter) == Min(baseDelayMs * Pow2(counter), MaxBackoffMs)

\* Variant: a success leaves the counter as it is.
KeepOnSuccess(counter) == counter

\* runTask: this.consecutiveRateLimits = 0, after a successful execute()
ResetOnSuccess(counter) == 0

\* executeWithRetry: if (attempt > 0) attempt--
CompensateRateLimit(a) == IF a > 0 THEN a - 1 ELSE a

\* executeWithRetry: delay of a retryable error
RetryDelay(a) == baseDelayMs * Pow2(a)

\* Variant: the loop runs one attempt too many.
LoopContinuesInclusive(a) == a <= maxRetries

\* executeWithRetry: the loop condition
LoopContinues(a) == a < maxRetries

\* executeWithRetry: lastError = error
RecordError(prev, e) == e

\* The turn given to the next task pushed on the queue.
NextTicket ==
  1 + (CHOOSE m \in { ticket[u] : u \in Tasks } :
         \A x \in { ticket[u] : u \in Tasks } : x <= m)

Sleeping == {"enqWait", "backoffWait", "retrySleep"}
Running == {"calling", "backoffWait", "retrySleep", "settling"}

(***************************************************************************)
(* The event loop.  A continuation whose promise is already settled is a   *)
(* microtask: the await of a waitForBackoff that did not sleep, and the    *)
(* await in runTask once executeWithRetry has returned or thrown.  Timers  *)
(* (setTimeout in sleep) run only when no microtask is left; the answer of *)
(* the inference service is an I/O event, handled when no microtask is     *)
(* left and no timer is due; then only does the clock move on.             *)
(***************************************************************************)
IsMicrotask(t) ==
  \/ pc[t] = "settling"
  \/ pc[t] = "enqWait" /\ wake[t] = 0

MicrotaskPending == \E u \in Tasks : IsMicrotask(u)

TimerDue == \E u \in Tasks : pc[u] \in Sleeping /\ wake[u] # 0 /\ now >= wake[u]
Finished == {"resolved", "rejected"}

(***************************************************************************)
(* generateObject(options): enqueue up to its await of waitForBackoff.     *)
(* Callers are interchangeable, so task t is submitted after task t - 1.   *)
(***************************************************************************)
Submit(t) ==
  /\ pc[t] = "idle"
  /\ \A u \in Tasks : u < t => pc[u] # "idle"
  /\ pc' = [pc EXCEPT ![t] = "enqWait"]
  /\ wake' = [wake EXCEPT ![t] = WaitForBackoffWake(now, globalBackoffUntil)]
  /\ UNCHANGED << beyondPool, config, inFlight, queue, globalBackoffUntil,
                  consecutiveRateLimits, now, attempt, lastError, outcome,
                  nRateLimited, nTransient, lastAnswer, ticket, faults >>

(***************************************************************************)
(* enqueue after the await: run the task (runTask up to its await, which   *)
(* is executeWithRetry up to the first call) or push it on the queue.      *)
(* wake[t] keeps the end of the sleep, if any, until t's next timer.       *)
(***************************************************************************)
EnqueueResume(t) ==
  /\ pc[t] = "enqWait"
  /\ now >= wake[t]
  /\ IF wake[t] = 0
       THEN \A u \in Tasks : u < t => ~(pc[u] = "enqWait" /\ wake[u] = 0)
       ELSE ~MicrotaskPending
  /\ IF HasCapacity(inFlight)
       THEN /\ inFlight' = inFlight + 1
            /\ pc' = [pc EXCEPT ![t] = "calling"]
            /\ attempt' = [attempt EXCEPT ![t] = 0]
            /\ UNCHANGED << queue, ticket >>
       ELSE /\ queue' = QueuePush(queue, t)
            /\ ticket' = [ticket EXCEPT ![t] = NextTicket]
            /\ pc' = [pc EXCEPT ![t] = "queued"]
            /\ UNCHANGED << inFlight, attempt >>
  /\ UNCHANGED << beyondPool, config, globalBackoffUntil, consecutiveRateLimits, now,
                  lastError, wake, outcome, nRateLimited, nTransient,
                  lastAnswer, faults >>

(***************************************************************************)
(* The inference call of task t returns: executeWithRetry returns          *)
(* result.object; runTask resumes in a later microtask.                    *)
(***************************************************************************)
CallSucceeds(t) ==
  /\ pc[t] = "calling"
  /\ ~MicrotaskPending /\ ~TimerDue
  /\ pc' = [pc EXCEPT ![t] = "settling"]
  /\ outcome' = [outcome EXCEPT ![t] = Response]
  /\ UNCHANGED << beyondPool, config, inFlight, queue, globalBackoffUntil,
                  consecutiveRateLimits, now, attempt, lastError, wake,
                  nRateLimited, nTransient, lastAnswer, ticket, faults >>

(***************************************************************************)
(* The inference call of task t throws an error of shape s: the catch      *)
(* block of executeWithRetry up to its await (or its throw).               *)
(***************************************************************************)
CallThrows(t, s) ==
  /\ pc[t] = "calling"
  /\ ~MicrotaskPending /\ ~TimerDue
  /\ LET e == s
         counter == consecutiveRateLimits + 1
         until == now + BackoffMs(counter)
     IN
     /\ lastError' = [lastError EXCEPT ![t] = RecordError(lastError[t], e)]
     /\ IF isRateLimitError(e)
          THEN /\ consecutiveRateLimits' = counter
               /\ globalBackoffUntil' = until
               /\ wake' = [wake EXCEPT ![t] = WaitForBackoffWake(now, until)]
               /\ pc' = [pc EXCEPT ![t] = "backoffWait"]
               /\ nRateLimited' = [nRateLimited EXCEPT ![t] = @ + 1]
               /\ UNCHANGED << nTransient, outcome >>
          ELSE IF isRetryableError(e)
          THEN /\ wake' = [wake EXCEPT ![t] = now + RetryDelay(attempt[t])]
               /\ pc' = [pc EXCEPT ![t] = "retrySleep"]
               /\ nTransient' = [nTransient EXCEPT ![t] = @ + 1]
               /\ UNCHANGED << consecutiveRateLimits, globalBackoffUntil,
                               nRateLimited, outcome >>
          ELSE /\ pc' = [pc EXCEPT ![t] = "settling"]
               /\ outcome' = [outcome EXCEPT ![t] = e]
               /\ UNCHANGED << consecutiveRateLimits, globalBackoffUntil,
                               wake, nRateLimited, nTransient >>
  /\ faults' = faults + 1
  /\ lastAnswer' = [lastAnswer EXCEPT ![t] = s]
  /\ UNCHANGED << beyondPool, config, inFlight, queue, now, attempt, ticket >>

\* At most MaxFaults calls fail in a behaviour.
CallFails(t, s) == faults < MaxFaults /\ CallThrows(t, s)

(***************************************************************************)
(* The sleep in the catch block ends: the rest of the loop body, the       *)
(* attempt++ of the for statement, and either the next call or, when the   *)
(* loop ends, throw lastError.                                             *)
(***************************************************************************)
RetryResume(t) ==
  /\ pc[t] \in {"backoffWait", "retrySleep"}
  /\ now >= wake[t]
  /\ ~MicrotaskPending
  /\ LET a == IF pc[t] = "backoffWait"
                THEN CompensateRateLimit(attempt[t]) + 1
                ELSE attempt[t] + 1
     IN
     /\ attempt' = [attempt EXCEPT ![t] = a]
     /\ IF LoopContinues(a)
          THEN /\ pc' = [pc EXCEPT ![t] = "calling"]
               /\ outcome' = outcome
          ELSE /\ pc' = [pc EXCEPT ![t] = "settling"]
               /\ outcome' = [outcome EXCEPT ![t] = lastError[t]]
  /\ wake' = [wake EXCEPT ![t] = 0]
  /\ UNCHANGED << beyondPool, config, inFlight, queue, globalBackoffUntil,
                  consecutiveRateLimits, now, lastError,
                  nRateLimited, nTransient, lastAnswer, ticket, faults >>

(***************************************************************************)
(* runTask after its await: the reset on success, the finally block, and   *)
(* processQueue, which may run the head of the queue (runTask up to its    *)
(* await).  The Future of t settles with outcome[t]; the locals of its     *)
(* executeWithRetry are gone.                                              *)
(***************************************************************************)
Settle(t) ==
  /\ pc[t] = "settling"
  /\ LET ok == outcome[t].status = 200
         n == InFlightDecrement(inFlight)
         final == IF ok THEN "resolved" ELSE "rejected"
     IN
     /\ consecutiveRateLimits' =
          IF ok THEN ResetOnSuccess(consecutiveRateLimits)
                ELSE consecutiveRateLimits
     /\ IF ProcessQueueGuard(queue, n, now, globalBackoffUntil)
          THEN /\ queue' = QueueShift(queue).rest
               /\ inFlight' = n + 1
               /\ pc' = [pc EXCEPT ![t] = final,
                                   ![QueueShift(queue).task] = "calling"]
          ELSE /\ queue' = queue
               /\ inFlight' = n
               /\ pc' = [pc EXCEPT ![t] = final]
  /\ attempt' = [attempt EXCEPT ![t] = 0]
  /\ lastError' = [lastError EXCEPT ![t] = NoError]
  /\ outcome' = [outcome EXCEPT ![t] = NoError]
  /\ nRateLimited' = [nRateLimited EXCEPT ![t] = 0]
  /\ nTransient' = [nTransient EXCEPT ![t] = 0]
  /\ lastAnswer' = [lastAnswer EXCEPT ![t] = NoError]
  /\ ticket' = [ticket EXCEPT ![t] = 0]
  /\ wake' = [wake EXCEPT ![t] = 0]
  /\ UNCHANGED << beyondPool, config, globalBackoffUntil, now, faults >>

(***************************************************************************)
(* Time passes: by one tick, or up to the next timer.  Timers never fire    *)
(* early.                                                                  *)
(***************************************************************************)
PendingWakes == { wake[t] : t \in { u \in Tasks : pc[u] \in Sleeping /\ wake[u] > now } }

Tick ==
  /\ ~MicrotaskPending /\ ~TimerDue
  /\ now + TickMs <= MaxTicks * TickMs
  /\ \A w \in PendingWakes : now + TickMs <= w
  /\ now' = now + TickMs
  /\ UNCHANGED << beyondPool, config, inFlight, queue, globalBackoffUntil,
                  consecutiveRateLimits, pc, attempt, lastError, wake,
                  outcome, nRateLimited, nTransient, lastAnswer, ticket, faults >>

NextTimer ==
  /\ ~MicrotaskPending /\ ~TimerDue
  /\ PendingWakes # {}
  /\ now' = CHOOSE w \in PendingWakes : \A x \in PendingWakes : w <= x
  /\ UNCHANGED << beyondPool, config, inFlight, queue, globalBackoffUntil,
                  consecutiveRateLimits, pc, attempt, lastError, wake,
                  outcome, nRateLimited, nTransient, lastAnswer, ticket, faults >>

Next ==
  \/ \E t \in Tasks : Submit(t)
  \/ \E t \in Tasks : EnqueueResume(t)
  \/ \E t \in Tasks : CallSucceeds(t)
  \/ \E t \in Tasks : \E s \in ErrorShapes : CallFails(t, s)
  \/ \E t \in Tasks : RetryResume(t)
  \/ \E t \in Tasks : Settle(t)
  \/ Tick
  \/ NextTimer

PoolSpec == Init /\ [][Next]_vars

(***************************************************************************)
(* Steps the properties below speak of.                                    *)
(***************************************************************************)

\* Task t starts running in this step (runTask is entered for it).
Starts(t) == pc[t] \in {"enqWait", "queued"} /\ pc'[t] = "calling"

\* Task t completes in this step (the finally block of its runTask runs).
Completes(t) == pc[t] = "settling" /\ pc'[t] \in Finished

\* executeWithRetry of task t has thrown: its Future is being rejected.
Rejecting(t) == pc[t] = "settling" /\ outcome[t] # Response

\* The inference call of task t fails with a rate-limit error in this step.
RateLimited(t) == pc[t] = "calling" /\ pc'[t] = "backoffWait"

BackoffActive == now < globalBackoffUntil

(***************************************************************************)
(* C1.  The in-flight count never exceeds the configured concurrency       *)
(* limit, with more tasks submitted than the limit and under every         *)
(* interleaving of submissions, completions, errors, retries and backoff   *)
(* waits: neither the counter nor the number of tasks actually running.    *)
(***************************************************************************)
C1_InFlightWithinLimit ==
  /\ inFlight <= maxConcurrency
  /\ Cardinality({ t \in Tasks : pc[t] \in Running }) <= maxConcurrency

\* More tasks than the limit are submitted, the limit is reached, one task
\* waits in the queue and a running one sits in a backoff wait.
C1_Witness ==
  /\ NumTasks > maxConcurrency
  /\ \A t \in Tasks : pc[t] # "idle"
  /\ inFlight = maxConcurrency
  /\ Len(queue) > 0
  /\ \E t \in Tasks : pc[t] = "backoffWait"

(***************************************************************************)
(* C2.  Once a rate-limit error has set the global backoff deadline, no    *)
(* task starts running before it: not from the queue, not a new            *)
(* submission, not a submission that was already waiting when the deadline *)
(* was set or extended.                                                    *)
(***************************************************************************)
C2_NoStartBeforeDeadline ==
  [][\A t \in Tasks : Starts(t) => ~BackoffActive]_vars

(***************************************************************************)
(* C3.  A task is never rejected because of rate-limit errors alone,       *)
(* whatever the attempt cap: a task whose only errors were rate-limit      *)
(* errors is not being rejected.                                           *)
(***************************************************************************)
C3_NeverRejectedByRateLimitsAlone ==
  \A t \in Tasks :
    ~(Rejecting(t) /\ nTransient[t] = 0 /\ isRateLimitError(outcome[t]))

(***************************************************************************)
(* C4.  A rate-limit error does not consume a retry attempt: a task that   *)
(* is rejected after its transient errors ran out of attempts has met the  *)
(* full configured number of transient errors, however many rate-limit     *)
(* errors it met in between.                                               *)
(***************************************************************************)
C4_RateLimitKeepsFullAttempts ==
  \A t \in Tasks :
    (Rejecting(t) /\ ~isRateLimitError(outcome[t]) /\ isRetryableError(outcome[t]))
      => nTransient[t] = maxRetries

(***************************************************************************)
(* C5.  A task whose calls fail with transient errors only issues at most  *)
(* maxRetries calls, and is then rejected with the error of its last call. *)
(***************************************************************************)
C5_TransientExhaustion ==
  \A t \in Tasks :
    (pc[t] \in Running /\ nRateLimited[t] = 0) =>
      /\ nTransient[t] + (IF pc[t] = "calling" THEN 1 ELSE 0) <= maxRetries
      /\ (Rejecting(t) /\ nTransient[t] > 0 /\ isRetryableError(lastAnswer[t])) =>
           /\ nTransient[t] = maxRetries
           /\ outcome[t] = lastAnswer[t]

\* A task with an attempt cap of 2 is being rejected after two transient
\* errors and no other.
C5_Witness ==
  \E t \in Tasks :
    /\ Rejecting(t)
    /\ maxRetries = 2
    /\ nRateLimited[t] = 0
    /\ nTransient[t] = 2
    /\ isRetryableError(outcome[t])

(***************************************************************************)
(* C6.  Whenever a task completes successfully, the consecutive-rate-limit *)
(* counter is 0 right afterwards, whatever it was before.                  *)
(***************************************************************************)
C6_SuccessResetsStreak ==
  [][\A t \in Tasks :
       (Completes(t) /\ outcome[t] = Response) => consecutiveRateLimits' = 0]_vars

\* A task has completed successfully inside a backoff window (so after at
\* least one rate-limit error), and the counter is 0 while another task
\* still sits in the backoff wait that error caused.
C6_Witness ==
  \E t, u \in Tasks :
    /\ pc[t] = "resolved"
    /\ pc[u] = "backoffWait"
    /\ BackoffActive
    /\ consecutiveRateLimits = 0

(***************************************************************************)
(* C7.  The queue is consumed in FIFO order: when a queued task starts     *)
(* running, every task still in the queue was enqueued after it.           *)
(***************************************************************************)
C7_QueueIsFifo ==
  [][\A t \in Tasks :
       (pc[t] = "queued" /\ pc'[t] # "queued") =>
         /\ pc'[t] = "calling"
         /\ \A u \in Tasks : pc'[u] = "queued" => ticket[t] < ticket'[u]]_vars

\* A task taken from the queue is running while a task enqueued after it
\* still waits in the queue.
C7_Witness ==
  \E t, u \in Tasks :
    /\ pc[t] = "calling" /\ ticket[t] > 0
    /\ pc[u] = "queued" /\ ticket[u] > ticket[t]

(***************************************************************************)
(* C8.  Whenever a running task completes, by success or by failure, with  *)
(* the queue non-empty, the in-flight count (the completed task no longer  *)
(* counted) below the limit and no backoff window active, the head of the  *)
(* queue starts running in that same step.                                 *)
(***************************************************************************)
C8_CompletionDispatchesHead ==
  [][\A t \in Tasks :
       ( /\ Completes(t)
         /\ Len(queue) > 0
         /\ inFlight - 1 < maxConcurrency
         /\ ~BackoffActive )
       => /\ pc'[Head(queue)] = "calling"
          /\ queue' = Tail(queue)
          /\ inFlight' = inFlight]_vars

\* With a limit of 1, a task was rejected and a task taken from the queue
\* runs; nothing else has run, so the rejection dispatched it.
C8_Witness ==
  \E t, u \in Tasks :
    /\ maxConcurrency = 1
    /\ pc[t] = "rejected"
    /\ pc[u] = "calling" /\ ticket[u] > 0
    /\ \A w \in Tasks \ {t, u} : pc[w] \in {"idle", "enqWait", "queued"}

(***************************************************************************)
(* C9, as stated.  A submitted task starts running at once if and only if  *)
(* at submission the in-flight count is below the limit and no backoff     *)
(* window is active; in every other case it is appended to the queue.      *)
(* wake[t] # 0 says that a backoff window was active at submission.        *)
(***************************************************************************)
C9_RunsOrQueuedAtSubmission ==
  [][\A t \in Tasks :
       (pc[t] = "enqWait" /\ pc'[t] # "enqWait") =>
         /\ (pc'[t] = "calling") <=> (inFlight < maxConcurrency /\ wake[t] = 0)
         /\ (pc'[t] # "calling") => queue' = Append(queue, t)]_vars

(***************************************************************************)
(* C9, amended.  A submission first waits until the backoff deadline in    *)
(* force when it was made (not at all when no window is active), outside   *)
(* the queue; when that wait ends it starts running if and only if the     *)
(* in-flight count is then below the limit, and is otherwise appended to   *)
(* the queue.                                                              *)
(***************************************************************************)
C9_RunsOrQueuedAfterWait ==
  [][\A t \in Tasks :
       /\ (pc[t] = "idle" /\ pc'[t] # "idle") =>
            /\ pc'[t] = "enqWait"
            /\ wake'[t] = (IF BackoffActive THEN globalBackoffUntil ELSE 0)
            /\ queue' = queue /\ inFlight' = inFlight
       /\ (pc[t] = "enqWait" /\ pc'[t] # "enqWait") =>
            /\ now >= wake[t]
            /\ IF inFlight < maxConcurrency
                 THEN /\ pc'[t] = "calling"
                      /\ inFlight' = inFlight + 1
                      /\ queue' = queue
                 ELSE /\ pc'[t] = "queued"
                      /\ inFlight' = inFlight
                      /\ queue' = Append(queue, t)]_vars

\* A task that waited out a backoff window at submission runs without
\* having been queued, its first call still pending; and another task that
\* found no capacity sits in the queue behind an earlier one.
C9_Witness ==
  /\ \E t \in Tasks :
       /\ pc[t] = "calling" /\ wake[t] # 0 /\ ticket[t] = 0
       /\ nRateLimited[t] = 0 /\ nTransient[t] = 0
  /\ Len(queue) > 0

(***************************************************************************)
(* C10.  Each rate-limit error increments the consecutive-rate-limit       *)
(* counter by one and sets the global deadline to                          *)
(* now + min(base * 2^counter, 60 s), counter being the incremented value. *)
(***************************************************************************)
C10_BackoffDeadline ==
  [][\A t \in Tasks :
       RateLimited(t) =>
         /\ consecutiveRateLimits' = consecutiveRateLimits + 1
         /\ LET grown == baseDelayMs * (2 ^ consecutiveRateLimits')
            IN globalBackoffUntil' =
                 now + (IF grown <= MaxBackoffMs THEN grown ELSE MaxBackoffMs)]_vars

\* A second rate-limit error in a row, after time has passed, with the
\* default base delay: the window is four base delays from now.
C10_Witness ==
  /\ consecutiveRateLimits = 2
  /\ now > 0
  /\ baseDelayMs = DefaultBaseDelayMs
  /\ globalBackoffUntil = now + 4 * DefaultBaseDelayMs
  /\ \E t \in Tasks : pc[t] = "backoffWait" /\ wake[t] = globalBackoffUntil

(***************************************************************************)
(* C11.  A call that fails with a non-retryable error (a 4xx status other  *)
(* than 429, as a validation failure carries) rejects its task with that   *)
(* error at once: in the step the call fails the task goes to its          *)
(* rejection with that error, no sleep being armed and no time passing,    *)
(* and from there it is only ever rejected, never called again.            *)
(***************************************************************************)
ClientError(e) == e.status >= 400 /\ e.status < 500 /\ e.status # 429

C11_FatalRejectsAtOnce ==
  [][\A t \in Tasks :
       /\ (pc[t] = "calling" /\ pc'[t] # "calling" /\ ClientError(lastAnswer'[t])) =>
            /\ pc'[t] = "settling"
            /\ outcome'[t] = lastAnswer'[t]
            /\ wake'[t] = wake[t]
            /\ now' = now
       /\ (Rejecting(t) /\ ClientError(outcome[t]) /\ pc'[t] # pc[t]) =>
            pc'[t] = "rejected"]_vars

\* The first call of a task that had two attempts answered 400: the task is
\* being rejected with it, having met no other error and armed no timer.
C11_Witness ==
  \E t \in Tasks :
    /\ Rejecting(t)
    /\ ClientError(outcome[t])
    /\ maxRetries = 2
    /\ attempt[t] = 0
    /\ nRateLimited[t] = 0 /\ nTransient[t] = 0

(***************************************************************************)
(* The dispatcher with usage statistics (src/unnamed/part_003): the same   *)
(* pool, whose executeWithRetry also counts the calls, the tokens and the  *)
(* cost.  Two executions of it run side by side, runs[1] and runs[2]: they *)
(* are given the same configuration, the same submissions and the same     *)
(* answers at the same times, and differ only in the usage figures the     *)
(* responses carry.  Each step applies one method, written as a function   *)
(* of the pool object, to both.                                            *)
(***************************************************************************)
NumUsageTasks == 2       \* submissions made to each execution

UsageTasks == 1..NumUsageTasks

UsageBaseDelayMs == 2000     \* config.baseDelayMs ?? 2000

\* <<maxConcurrency, maxRetries, baseDelayMs, model>>
UsageConfigs ==
  { << 1, 2, UsageBaseDelayMs, "gemini-1.5-pro" >>,
    << 2, 1, UsageBaseDelayMs, "gemini-3-pro-preview" >> }

\* result.usage as found by the extraction: absent, or its two figures
\* (a figure the response lacks is read as 0).
Usages ==
  { [present |-> FALSE, promptTokens |-> 0, completionTokens |-> 0],
    [present |-> TRUE, promptTokens |-> 1000, completionTokens |-> 200],
    [present |-> TRUE, promptTokens |-> 0, completionTokens |-> 50] }

\* estimateCost: the pricing table, per token in 10^-9 dollars, of the
\* first key the model name includes; nothing for an unknown model.
Pricing(model) ==
  IF model = "gemini-1.5-pro" THEN [input |-> 3500, output |-> 10500]
  ELSE IF model = "gemini-1.5-flash" THEN [input |-> 75, output |-> 300]
  ELSE IF model = "gemini-3-pro-preview" THEN [input |-> 0, output |-> 0]
  ELSE [input |-> 0, output |-> 0]

estimateCost(model, usage) ==
  LET price == Pricing(model)
      inputCost == usage.promptTokens * price.input
      outputCost == usage.completionTokens * price.output
  IN inputCost + outputCost

\* executeWithRetry: "Track usage"
TrackUsage(stats, model, usage) ==
  LET counted == [stats EXCEPT !.totalCalls = @ + 1]
  IN IF usage.present
       THEN [counted EXCEPT
               !.totalPromptTokens = @ + usage.promptTokens,
               !.totalCompletionTokens = @ + usage.completionTokens,
               !.estimatedCost = @ + estimateCost(model, usage)]
       ELSE counted

\* isRetryableError of this version knows three more messages.
isRetryableErrorOrClosed(e) ==
  \/ (e.status >= 500 /\ e.status < 600)
  \/ Includes(e.msg, "timeout")
  \/ Includes(e.msg, "ECONNRESET")
  \/ Includes(e.msg, "ETIMEDOUT")
  \/ Includes(e.msg, "other side closed")
  \/ Includes(e.msg, "fetch failed")
  \/ Includes(e.msg, "socket")

\* The pool object after construction, with the locals of its tasks.
InitRun(m) ==
  [ model |-> m,
    inFlight |-> 0,
    queue |-> << >>,
    globalBackoffUntil |-> 0,
    consecutiveRateLimits |-> 0,
    stats |-> [totalCalls |-> 0, totalPromptTokens |-> 0,
               totalCompletionTokens |-> 0, estimatedCost |-> 0],
    pc |-> [t \in UsageTasks |-> "idle"],
    attempt |-> [t \in UsageTasks |-> 0],
    lastError |-> [t \in UsageTasks |-> NoError],
    wake |-> [t \in UsageTasks |-> 0],
    outcome |-> [t \in UsageTasks |-> NoError] ]

\* generateObject: enqueue up to its await of waitForBackoff
RunSubmit(r, t) ==
  [r EXCEPT !.pc[t] = "enqWait",
            !.wake[t] = WaitForBackoffWake(now, r.globalBackoffUntil)]

\* Variant: a task is run only while the tokens counted stay under a budget.
RunEnqueueResumeWithinBudget(r, t) ==
  IF HasCapacity(r.inFlight) /\ r.stats.totalPromptTokens < 1000
    THEN [r EXCEPT !.inFlight = @ + 1, !.pc[t] = "calling", !.attempt[t] = 0]
    ELSE [r EXCEPT !.queue = QueuePush(@, t), !.pc[t] = "queued"]

\* enqueue after the await
RunEnqueueResume(r, t) ==
  IF HasCapacity(r.inFlight)
    THEN [r EXCEPT !.inFlight = @ + 1, !.pc[t] = "calling", !.attempt[t] = 0]
    ELSE [r EXCEPT !.queue = QueuePush(@, t), !.pc[t] = "queued"]

\* executeWithRetry: the call returns a result carrying usage
RunCallSucceeds(r, t, usage) ==
  [r EXCEPT !.stats = TrackUsage(@, r.model, usage),
            !.pc[t] = "settling",
            !.outcome[t] = Response]

\* executeWithRetry: the catch block up to its await or its throw
RunCallFails(r, t, e) ==
  LET counter == r.consecutiveRateLimits + 1
      until == now + BackoffMs(counter)
      caught == [r EXCEPT !.lastError[t] = RecordError(@, e)]
  IN IF isRateLimitError(e)
       THEN [caught EXCEPT !.consecutiveRateLimits = counter,
                           !.globalBackoffUntil = until,
                           !.wake[t] = WaitForBackoffWake(now, until),
                           !.pc[t] = "backoffWait"]
       ELSE IF isRetryableErrorOrClosed(e)
       THEN [caught EXCEPT !.wake[t] = now + RetryDelay(r.attempt[t]),
                           !.pc[t] = "retrySleep"]
       ELSE [caught EXCEPT !.pc[t] = "settling", !.outcome[t] = e]

\* executeWithRetry: after the sleep of the catch block
RunRetryResume(r, t) ==
  LET a == IF r.pc[t] = "backoffWait"
             THEN CompensateRateLimit(r.attempt[t]) + 1
             ELSE r.attempt[t] + 1
      woken == [r EXCEPT !.attempt[t] = a, !.wake[t] = 0]
  IN IF LoopContinues(a)
       THEN [woken EXCEPT !.pc[t] = "calling"]
       ELSE [woken EXCEPT !.pc[t] = "settling", !.outcome[t] = r.lastError[t]]

\* runTask after its await, with processQueue
RunSettle(r, t) ==
  LET ok == r.outcome[t].status = 200
      n == r.inFlight - 1
      done == [r EXCEPT !.consecutiveRateLimits =
                           IF ok THEN ResetOnSuccess(@) ELSE @,
                        !.attempt[t] = 0,
                        !.lastError[t] = NoError,
                        !.outcome[t] = NoError,
                        !.wake[t] = 0,
                        !.pc[t] = IF ok THEN "resolved" ELSE "rejected"]
  IN IF ProcessQueueGuard(r.queue, n, now, r.globalBackoffUntil)
       THEN [done EXCEPT !.queue = QueueShift(r.queue).rest,
                         !.inFlight = n + 1,
                         !.pc[QueueShift(r.queue).task] = "calling"]
       ELSE [done EXCEPT !.inFlight = n]

\* The variables of the dispatcher of pool.ts, at rest in this specification.
poolAtRest == << inFlight, queue, globalBackoffUntil, consecutiveRateLimits,
                 pc, attempt, lastError, wake, outcome,
                 nRateLimited, nTransient, lastAnswer, ticket >>

\* The variables this dispatcher does not touch.
beyondUsage == << poolAtRest, detectorVars, runVars, tilerVars, discoveryVars, kernelVars >>

UsageInit ==
  /\ \E c \in UsageConfigs :
       /\ maxConcurrency = c[1]
       /\ maxRetries = c[2]
       /\ baseDelayMs = c[3]
       /\ runs = [i \in 1..2 |-> InitRun(c[4])]
  /\ now = 0
  /\ faults = 0
  /\ inFlight = 0
  /\ queue = << >>
  /\ globalBackoffUntil = 0
  /\ consecutiveRateLimits = 0
  /\ pc = [t \in Tasks |-> "idle"]
  /\ attempt = [t \in Tasks |-> 0]
  /\ lastError = [t \in Tasks |-> NoError]
  /\ wake = [t \in Tasks |-> 0]
  /\ outcome = [t \in Tasks |-> NoError]
  /\ nRateLimited = [t \in Tasks |-> 0]
  /\ nTransient = [t \in Tasks |-> 0]
  /\ lastAnswer = [t \in Tasks |-> NoError]
  /\ ticket = [t \in Tasks |-> 0]
  /\ DetectorAtRest
  /\ RunAtRest
  /\ TilerAtRest
  /\ DiscoveryAtRest
  /\ KernelAtRest

\* The event loop, as above, read off the first execution.
UsageMicrotaskPending ==
  \E u \in UsageTasks :
    \/ runs[1].pc[u] = "settling"
    \/ runs[1].pc[u] = "enqWait" /\ runs[1].wake[u] = 0

UsageTimerDue ==
  \E u \in UsageTasks :
    runs[1].pc[u] \in Sleeping /\ runs[1].wake[u] # 0 /\ now >= runs[1].wake[u]

UsagePendingWakes ==
  { runs[1].wake[t] :
      t \in { u \in UsageTasks : runs[1].pc[u] \in Sleeping /\ runs[1].wake[u] > now } }

UsageSubmit(t) ==
  /\ runs[1].pc[t] = "idle"
  /\ \A u \in UsageTasks : u < t => runs[1].pc[u] # "idle"
  /\ runs' = [i \in 1..2 |-> RunSubmit(runs[i], t)]
  /\ UNCHANGED << config, now, faults, beyondUsage >>

UsageEnqueueResume(t) ==
  /\ runs[1].pc[t] = "enqWait"
  /\ now >= runs[1].wake[t]
  /\ IF runs[1].wake[t] = 0
       THEN \A u \in UsageTasks :
              u < t => ~(runs[1].pc[u] = "enqWait" /\ runs[1].wake[u] = 0)
       ELSE ~UsageMicrotaskPending
  /\ runs' = [i \in 1..2 |-> RunEnqueueResume(runs[i], t)]
  /\ UNCHANGED << config, now, faults, beyondUsage >>

\* The call of task t returns, in each execution with its own usage.
UsageCallSucceeds(t) ==
  /\ runs[1].pc[t] = "calling"
  /\ ~UsageMicrotaskPending /\ ~UsageTimerDue
  /\ \E usage \in [1..2 -> Usages] :
       runs' = [i \in 1..2 |-> RunCallSucceeds(runs[i], t, usage[i])]
  /\ UNCHANGED << config, now, faults, beyondUsage >>

UsageCallFails(t, s) ==
  /\ runs[1].pc[t] = "calling"
  /\ ~UsageMicrotaskPending /\ ~UsageTimerDue
  /\ faults < MaxFaults
  /\ runs' = [i \in 1..2 |-> RunCallFails(runs[i], t, s)]
  /\ faults' = faults + 1
  /\ UNCHANGED << config, now, beyondUsage >>

UsageRetryResume(t) ==
  /\ runs[1].pc[t] \in {"backoffWait", "retrySleep"}
  /\ now >= runs[1].wake[t]
  /\ ~UsageMicrotaskPending
  /\ runs' = [i \in 1..2 |-> RunRetryResume(runs[i], t)]
  /\ UNCHANGED << config, now, faults, beyondUsage >>

UsageSettle(t) ==
  /\ runs[1].pc[t] = "settling"
  /\ runs' = [i \in 1..2 |-> RunSettle(runs[i], t)]
  /\ UNCHANGED << config, now, faults, beyondUsage >>

UsageTick ==
  /\ ~UsageMicrotaskPending /\ ~UsageTimerDue
  /\ now + TickMs <= MaxTicks * TickMs
  /\ \A w \in UsagePendingWakes : now + TickMs <= w
  /\ now' = now + TickMs
  /\ UNCHANGED << config, faults, runs, beyondUsage >>

UsageNextTimer ==
  /\ ~UsageMicrotaskPending /\ ~UsageTimerDue
  /\ UsagePendingWakes # {}
  /\ now' = CHOOSE w \in UsagePendingWakes : \A x \in UsagePendingWakes : w <= x
  /\ UNCHANGED << config, faults, runs, beyondUsage >>

UsageNext ==
  \/ \E t \in UsageTasks : UsageSubmit(t)
  \/ \E t \in UsageTasks : UsageEnqueueResume(t)
  \/ \E t \in UsageTasks : UsageCallSucceeds(t)
  \/ \E t \in UsageTasks : \E s \in ErrorShapes : UsageCallFails(t, s)
  \/ \E t \in UsageTasks : UsageRetryResume(t)
  \/ \E t \in UsageTasks : UsageSettle(t)
  \/ UsageTick
  \/ UsageNextTimer

UsageSpec == UsageInit /\ [][UsageNext]_vars

\* Everything of an execution but its usage statistics: the dispatcher's
\* fields and, per task, where it stands, its attempt, its errors, its
\* timer and what it resolves or rejects with.
Control(r) == [f \in (DOMAIN r) \ {"stats"} |-> r[f]]

(***************************************************************************)
(* C12.  Usage counters never affect control flow: two executions that     *)
(* differ only in the usage figures carried by the responses are, after    *)
(* every step, in the same state but for the counters: same in-flight      *)
(* count, queue, backoff deadline and streak, every task at the same       *)
(* point with the same attempt, timer and outcome.                         *)
(***************************************************************************)
C12_UsageNeverSteers == Control(runs[1]) = Control(runs[2])

\* The executions have counted different tokens and costs for the same
\* number of calls, and after that a task was dispatched, met a rate-limit
\* error and waits in the backoff while the other task has resolved.
C12_Witness ==
  /\ runs[1].stats.totalPromptTokens # runs[2].stats.totalPromptTokens
  /\ runs[1].stats.estimatedCost # runs[2].stats.estimatedCost
  /\ runs[1].stats.totalCalls = runs[2].stats.totalCalls
  /\ runs[1].pc[1] = "resolved"
  /\ runs[1].pc[2] = "backoffWait"
  /\ runs[1].attempt[2] = 0

(***************************************************************************)
(* The Region Detector (src/src/lib/detector-original.ts): geometry        *)
(* helpers first.  A box is <<xmin, ymin, xmax, ymax>>; the response       *)
(* schemas make every coordinate an integer.  An instance is               *)
(* [label, type, box_2d, aliases], aliases = {} when it has none.          *)
(***************************************************************************)
Max(a, b) == IF a > b THEN a ELSE b

clamp(value, min, max) == Min(max, Max(min, value))

\* Variant: the coordinates are clamped but not put in order.
normalizeBoxUnordered(box) ==
  << clamp(box[1], 0, 1000), clamp(box[2], 0, 1000),
     clamp(box[3], 0, 1000), clamp(box[4], 0, 1000) >>

normalizeBox(box) ==
  LET x1 == clamp(box[1], 0, 1000)
      y1 == clamp(box[2], 0, 1000)
      x2 == clamp(box[3], 0, 1000)
      y2 == clamp(box[4], 0, 1000)
  IN << Min(x1, x2), Min(y1, y2), Max(x1, x2), Max(y1, y2) >>

\* String.prototype.toLowerCase, for the type names used here.
ToLowerCase(str) ==
  IF str = "Animal" THEN "animal" ELSE IF str = "Hound" THEN "hound" ELSE str

normalizeType(value) == ToLowerCase(IF value = "" THEN "other" ELSE value)

getBoxArea(box) == Max(0, box[3] - box[1]) * Max(0, box[4] - box[2])

intersectionArea(a, b) ==
  LET interX1 == Max(a[1], b[1])
      interY1 == Max(a[2], b[2])
      interX2 == Min(a[3], b[3])
      interY2 == Min(a[4], b[4])
      interW == Max(0, interX2 - interX1)
      interH == Max(0, interY2 - interY1)
  IN interW * interH

\* boxSimilarity: the three ratios, each kept as numerator and denominator
\* (iou is 0 when the union is empty).
boxSimilarity(a, b) ==
  LET areaA == getBoxArea(a)
      areaB == getBoxArea(b)
      inter == intersectionArea(a, b)
      union == areaA + areaB - inter
  IN [ iouNum |-> IF union > 0 THEN inter ELSE 0,
       iouDen |-> IF union > 0 THEN union ELSE 1,
       coverNum |-> inter,
       coverDen |-> Max(1, Min(areaA, areaB)),
       ratioNum |-> Min(areaA, areaB),
       ratioDen |-> Max(1, Max(areaA, areaB)) ]

\* num / den >= pct / 100
AtLeast(num, den, pct) == num * 100 >= pct * den

\* Variant: the incoming object takes the place of the kept one.
mergeAliasesIntoIncoming(target, incoming) ==
  [incoming EXCEPT !.aliases = target.aliases \cup incoming.aliases \cup
                                 (IF incoming.label # target.label
                                    THEN {target.label} ELSE {})]

\* Variant: the incoming label is dropped.
mergeAliasesDroppingLabel(target, incoming) ==
  [target EXCEPT !.aliases = target.aliases \cup incoming.aliases]

\* mergeAliases: the aliases of both and the incoming label if it differs
mergeAliases(target, incoming) ==
  LET set == target.aliases \cup incoming.aliases \cup
               (IF incoming.label # "" /\ incoming.label # target.label
                  THEN {incoming.label} ELSE {})
  IN [target EXCEPT !.aliases = set]

\* Variant: one bar for every pair of categories.
MatchesKeptAtOneBar(obj, other) ==
  \E sim \in {boxSimilarity(normalizeBox(obj.box_2d), normalizeBox(other.box_2d))} :
    \/ AtLeast(sim.iouNum, sim.iouDen, 88) /\ AtLeast(sim.ratioNum, sim.ratioDen, 65)
    \/ AtLeast(sim.coverNum, sim.coverDen, 94) /\ AtLeast(sim.ratioNum, sim.ratioDen, 72)

\* dedupeObjectsByGeometry: the test of one object against one kept object
MatchesKept(obj, other) ==
  \E sim \in {boxSimilarity(normalizeBox(obj.box_2d), normalizeBox(other.box_2d))} :
    LET typeA == normalizeType(obj.type)
        typeB == normalizeType(other.type)
        sameType == typeA = typeB
        strictTypeMismatch == ~sameType /\ typeA # "other" /\ typeB # "other"
        isSameInstance ==
          \/ AtLeast(sim.iouNum, sim.iouDen, 88) /\ AtLeast(sim.ratioNum, sim.ratioDen, 65)
          \/ AtLeast(sim.coverNum, sim.coverDen, 94) /\ AtLeast(sim.ratioNum, sim.ratioDen, 72)
    IN IF strictTypeMismatch
         THEN /\ isSameInstance
              /\ AtLeast(sim.iouNum, sim.iouDen, 92)
              /\ AtLeast(sim.ratioNum, sim.ratioDen, 80)
         ELSE isSameInstance

\* dedupeObjectsByGeometry: the index in kept of the first match, 0 if none
MatchIndex(obj, kept) ==
  IF \E i \in 1..Len(kept) : MatchesKept(obj, kept[i])
    THEN CHOOSE i \in 1..Len(kept) :
           /\ MatchesKept(obj, kept[i])
           /\ \A j \in 1..(i - 1) : ~MatchesKept(obj, kept[j])
    ELSE 0

RECURSIVE DedupeFrom(_, _, _)
DedupeFrom(objects, k, kept) ==
  IF k > Len(objects) THEN kept
  ELSE LET obj == objects[k]
           matchIndex == MatchIndex(obj, kept)
       IN DedupeFrom(objects, k + 1,
            IF matchIndex = 0
              THEN Append(kept, obj)
              ELSE [kept EXCEPT ![matchIndex] = mergeAliases(kept[matchIndex], obj)])

\* Variant: no dedup at all.
dedupeNothing(objects) == objects

dedupeObjectsByGeometry(objects) == DedupeFrom(objects, 1, << >>)

(***************************************************************************)
(* One verification round applied to the instances (indices are those of   *)
(* the source, from 0).                                                    *)
(***************************************************************************)
SeqRange(seq) == { seq[k] : k \in 1..Len(seq) }

\* new Set(verification.wrong_indices.filter(i => i >= 0 && i < instances.length))
WrongSet(v, insts) == { i \in SeqRange(v.wrong_indices) : i >= 0 /\ i < Len(insts) }

\* instances.filter((_, i) => !wrongSet.has(i))
RemoveWrong(insts, wrongSet) ==
  LET keep == { i \in 0..(Len(insts) - 1) : i \notin wrongSet }
      nth(p) == CHOOSE i \in keep : Cardinality({ j \in keep : j < i }) = p - 1
  IN [p \in 1..Cardinality(keep) |-> insts[nth(p) + 1]]

\* Variant: the index is used as given, the removals not counted.
AdjustedIndexAsGiven(index, wrongSet) == index

\* corr.index - removedBelow
AdjustedIndex(index, wrongSet) ==
  LET removedBelow == Cardinality({ w \in wrongSet : w < index })
  IN index - removedBelow

\* The loop over verification.corrections from the k-th on: the instances
\* and correctionCount.
RECURSIVE CorrectFrom(_, _, _, _, _)
CorrectFrom(insts, corrections, wrongSet, k, correctionCount) ==
  IF k > Len(corrections)
    THEN [instances |-> insts, correctionCount |-> correctionCount]
  ELSE LET corr == corrections[k]
           adjustedIndex == AdjustedIndex(corr.index, wrongSet)
       IN IF corr.index \in wrongSet
            THEN CorrectFrom(insts, corrections, wrongSet, k + 1, correctionCount)
          ELSE IF adjustedIndex >= 0 /\ adjustedIndex < Len(insts)
            THEN CorrectFrom(
                   [insts EXCEPT ![adjustedIndex + 1].box_2d = normalizeBox(corr.box_2d)],
                   corrections, wrongSet, k + 1, correctionCount + 1)
          ELSE CorrectFrom(insts, corrections, wrongSet, k + 1, correctionCount)

\* instances.push({label: kind.kind, type: kind.type, box_2d: normalizeBox(m.box_2d)})
AddMissing(insts, missing, kind) ==
  insts \o [k \in 1..Len(missing) |->
              [label |-> kind.kind, type |-> kind.type,
               box_2d |-> normalizeBox(missing[k].box_2d), aliases |-> {}]]

\* Variant: adding missing instances does not set changed.
ApplyVerificationAdditionsUncounted(insts, v, kind) ==
  LET wrongSet == WrongSet(v, insts)
      removed == IF wrongSet # {} THEN RemoveWrong(insts, wrongSet) ELSE insts
      corrected == IF Len(v.corrections) > 0
                     THEN CorrectFrom(removed, v.corrections, wrongSet, 1, 0)
                     ELSE [instances |-> removed, correctionCount |-> 0]
      added == IF Len(v.missing) > 0
                 THEN AddMissing(corrected.instances, v.missing, kind)
                 ELSE corrected.instances
  IN [ instances |-> added,
       changed |-> \/ wrongSet # {}
                   \/ corrected.correctionCount > 0 ]

\* The body of the verification loop from the response to the tests of
\* changed: the new instances and changed.
ApplyVerification(insts, v, kind) ==
  LET wrongSet == WrongSet(v, insts)
      removed == IF wrongSet # {} THEN RemoveWrong(insts, wrongSet) ELSE insts
      corrected == IF Len(v.corrections) > 0
                     THEN CorrectFrom(removed, v.corrections, wrongSet, 1, 0)
                     ELSE [instances |-> removed, correctionCount |-> 0]
      added == IF Len(v.missing) > 0
                 THEN AddMissing(corrected.instances, v.missing, kind)
                 ELSE corrected.instances
  IN [ instances |-> added,
       changed |-> \/ wrongSet # {}
                   \/ corrected.correctionCount > 0
                   \/ Len(v.missing) > 0 ]

(***************************************************************************)
(* detectAndVerifyRegion: one detect call, then the verification loop.     *)
(* Its inference calls go through the pool, which retries them; here a     *)
(* call either returns a response or fails after the retries.  Each action *)
(* runs from one await to the next.                                        *)
(***************************************************************************)
MaxVerifyRounds == 2     \* maxVerifyRounds is 0 .. MaxVerifyRounds

NumQuadrants == 2        \* quadrants assigned to the kind detected per quadrant

\* options.kind
TheKind == [kind |-> "hound", type |-> "Animal"]

\* A kind detected on the full image.
StagKind == [kind |-> "stag", type |-> "animal"]

\* options.kind of the call for region r: regions 1 .. NumQuadrants are the
\* quadrants of the first kind, the region after them is the full image for
\* the second.
KindOf(r) == IF r <= NumQuadrants THEN TheKind ELSE StagKind

\* String.prototype.trim, for the names used here.
Trim(str) == IF str = " hound" THEN "hound" ELSE str

normalizeObject(object) ==
  [ label |-> Trim(object.label),
    type |-> Trim(object.type),
    box_2d |-> normalizeBox(object.box_2d),
    aliases |-> {} ]

\* detectInstancesForKind: result.objects.map(...)
DetectedInstances(objects, kind) ==
  [k \in 1..Len(objects) |->
     normalizeObject([label |-> kind.kind, type |-> kind.type,
                      box_2d |-> objects[k].box_2d])]

\* Boxes the model answers with: five apart from each other, one more, the
\* same with its corners swapped, and one that nearly covers the first.
BoxAt(k) == << k * 100, k * 100, k * 100 + 80, k * 100 + 80 >>
BoxX == << 900, 900, 950, 990 >>
BoxXSwapped == << 950, 990, 900, 900 >>
BoxNearFirst == << 0, 0, 80, 78 >>

Obj(box) == [label |-> "dog", type |-> "animal", box_2d |-> box]

\* InstancesSchema responses
DetectResponses ==
  { << >>,
    << Obj(BoxAt(0)) >>,
    << Obj(BoxAt(0)), Obj(BoxAt(1)) >>,
    << Obj(BoxAt(0)), Obj(BoxAt(1)), Obj(BoxAt(2)), Obj(BoxAt(3)), Obj(BoxAt(4)) >> }

NoVerification ==
  [wrong_indices |-> << >>, corrections |-> << >>, missing |-> << >>, complete |-> FALSE]

\* VerifyResponseSchema responses
VerifyResponses ==
  { NoVerification,
    [NoVerification EXCEPT !.complete = TRUE],
    [NoVerification EXCEPT !.wrong_indices = << 1, 3 >>,
                           !.corrections = << [index |-> 4, box_2d |-> BoxXSwapped] >>],
    [NoVerification EXCEPT !.wrong_indices = << 0 >>, !.complete = TRUE],
    [NoVerification EXCEPT !.missing = << [box_2d |-> BoxNearFirst] >>],
    [NoVerification EXCEPT !.wrong_indices = << 9 >>,
                           !.corrections = << [index |-> 7, box_2d |-> BoxX] >>],
    [NoVerification EXCEPT !.wrong_indices = << 1, 1 >>,
                           !.corrections = << [index |-> 1, box_2d |-> BoxX],
                                              [index |-> 0, box_2d |-> BoxX],
                                              [index |-> 0, box_2d |-> BoxAt(5)] >>,
                           !.missing = << [box_2d |-> BoxAt(6)] >>],
    [NoVerification EXCEPT !.wrong_indices = << 0, 1, 2, 3, 4 >>] }

\* Variant: verification is skipped only when there are no instances.
SkipVerificationWhenEmpty(insts) == Len(insts) = 0

\* if (maxVerifyRounds <= 0 || instances.length === 0) return instances
SkipVerification(insts) == maxVerifyRounds <= 0 \/ Len(insts) = 0

\* Variant: the loop runs one round too many.
LoopConditionInclusive(rnd) == rnd <= maxVerifyRounds

\* for (...; round < maxVerifyRounds; ...)
LoopCondition(rnd) == rnd < maxVerifyRounds

\* catch of the detect call: return []
ReturnOnDetectFailure == << >>

\* Variant: a failed verification empties the result.
ReturnNothing(insts) == << >>

\* catch of the verify call: break, then return instances
ReturnOnVerifyFailure(insts) == insts

\* Variant: the overlay shows the instances as they were before the dedup.
OverlayOfStale(insts, deduped) == insts

\* buildVerificationImage({..., instances, ...}) at the top of the loop body
OverlayOf(insts, deduped) == deduped

\* The dispatcher is not part of this specification.
PoolUnused ==
  /\ maxConcurrency = 1
  /\ maxRetries = 1
  /\ baseDelayMs = DefaultBaseDelayMs
  /\ inFlight = 0
  /\ queue = << >>
  /\ globalBackoffUntil = 0
  /\ consecutiveRateLimits = 0
  /\ now = 0
  /\ pc = [t \in Tasks |-> "idle"]
  /\ attempt = [t \in Tasks |-> 0]
  /\ lastError = [t \in Tasks |-> NoError]
  /\ wake = [t \in Tasks |-> 0]
  /\ outcome = [t \in Tasks |-> NoError]
  /\ nRateLimited = [t \in Tasks |-> 0]
  /\ nTransient = [t \in Tasks |-> 0]
  /\ lastAnswer = [t \in Tasks |-> NoError]
  /\ ticket = [t \in Tasks |-> 0]
  /\ faults = 0
  /\ runs = << >>

\* detectAndVerifyRegion has been called for each region of R and awaits
\* its detect call.
RegionsStarted(R) ==
  /\ rpc = [r \in R |-> "detecting"]
  /\ instances = [r \in R |-> << >>]
  /\ round = [r \in R |-> 0]
  /\ overlay = [r \in R |-> << >>]
  /\ result = [r \in R |-> << >>]
  /\ exit = [r \in R |-> "running"]
  /\ verifyCalls = [r \in R |-> 0]
  /\ before = [r \in R |-> << >>]
  /\ verification = [r \in R |-> NoVerification]
  /\ afterApply = [r \in R |-> << >>]
  /\ kindGroups = [r \in R |-> << >>]
  /\ allVerified = [r \in R |-> << >>]

beyondDetector == << poolVars, usageVars, runVars, tilerVars, discoveryVars, kernelVars >>

\* return value: the function ends
Returns(r, value, how) ==
  /\ rpc' = [rpc EXCEPT ![r] = "returned"]
  /\ result' = [result EXCEPT ![r] = value]
  /\ exit' = [exit EXCEPT ![r] = how]

\* The detect call returns objects.
DetectReturns(r, objects) ==
  /\ rpc[r] = "detecting"
  /\ LET found == DetectedInstances(objects, KindOf(r))
     IN /\ instances' = [instances EXCEPT ![r] = found]
        /\ IF SkipVerification(found)
             THEN /\ Returns(r, found, "unverified")
                  /\ UNCHANGED overlay
             ELSE /\ rpc' = [rpc EXCEPT ![r] = "building"]
                  /\ overlay' = [overlay EXCEPT ![r] = OverlayOf(found, found)]
                  /\ UNCHANGED << result, exit >>
  /\ round' = [round EXCEPT ![r] = 0]
  /\ UNCHANGED << maxVerifyRounds, kindGroups, allVerified, verifyCalls, before, verification,
                  afterApply, beyondDetector >>

\* The detect call fails.
DetectFails(r) ==
  /\ rpc[r] = "detecting"
  /\ Returns(r, ReturnOnDetectFailure, "detectFailed")
  /\ UNCHANGED << maxVerifyRounds, kindGroups, allVerified, instances, round, overlay, verifyCalls,
                  before, verification, afterApply, beyondDetector >>

\* The verification image is ready: the verify call is issued.
BuildReturns(r) ==
  /\ rpc[r] = "building"
  /\ rpc' = [rpc EXCEPT ![r] = "verifying"]
  /\ verifyCalls' = [verifyCalls EXCEPT ![r] = @ + 1]
  /\ UNCHANGED << maxVerifyRounds, kindGroups, allVerified, instances, round, overlay, result, exit,
                  before, verification, afterApply, beyondDetector >>

\* The verify call returns v: the rest of the loop body and, unless the
\* loop ends, the top of the next round.
VerifyReturns(r, v) ==
  /\ rpc[r] = "verifying"
  /\ LET applied == ApplyVerification(instances[r], v, KindOf(r))
         deduped == dedupeObjectsByGeometry(applied.instances)
         nextRound == round[r] + 1
     IN /\ before' = [before EXCEPT ![r] = instances[r]]
        /\ verification' = [verification EXCEPT ![r] = v]
        /\ afterApply' = [afterApply EXCEPT ![r] = applied.instances]
        /\ IF ~applied.changed
             THEN /\ instances' = [instances EXCEPT ![r] = applied.instances]
                  /\ Returns(r, applied.instances, "stable")
                  /\ UNCHANGED << round, overlay >>
           ELSE IF v.complete
             THEN /\ instances' = [instances EXCEPT ![r] = applied.instances]
                  /\ Returns(r, applied.instances, "complete")
                  /\ UNCHANGED << round, overlay >>
           ELSE /\ instances' = [instances EXCEPT ![r] = deduped]
                /\ round' = [round EXCEPT ![r] = nextRound]
                /\ IF LoopCondition(nextRound)
                     THEN /\ rpc' = [rpc EXCEPT ![r] = "building"]
                          /\ overlay' = [overlay EXCEPT
                                           ![r] = OverlayOf(applied.instances, deduped)]
                          /\ UNCHANGED << result, exit >>
                     ELSE /\ Returns(r, deduped, "maxRounds")
                          /\ UNCHANGED overlay
  /\ UNCHANGED << maxVerifyRounds, kindGroups, allVerified, verifyCalls, beyondDetector >>

\* The verify call fails.
VerifyFails(r) ==
  /\ rpc[r] = "verifying"
  /\ Returns(r, ReturnOnVerifyFailure(instances[r]), "verifyFailed")
  /\ UNCHANGED << maxVerifyRounds, kindGroups, allVerified, instances, round, overlay, verifyCalls,
                  before, verification, afterApply, beyondDetector >>

DetectorInit ==
  /\ maxVerifyRounds \in 0..MaxVerifyRounds
  /\ RegionsStarted({1})
  /\ PoolUnused
  /\ RunAtRest
  /\ TilerAtRest
  /\ DiscoveryAtRest
  /\ KernelAtRest

DetectorNext ==
  \/ \E objects \in DetectResponses : DetectReturns(1, objects)
  \/ DetectFails(1)
  \/ BuildReturns(1)
  \/ \E v \in VerifyResponses : VerifyReturns(1, v)
  \/ VerifyFails(1)

DetectorSpec == DetectorInit /\ [][DetectorNext]_vars

(***************************************************************************)
(* What the properties of the Region Detector speak of.                    *)
(***************************************************************************)
DetectorRegions == DOMAIN rpc

\* The verification loop of region r was entered and r has returned.
LoopEnded(r) == rpc[r] = "returned" /\ verifyCalls[r] > 0

\* The last verify response of r removed, corrected or added something,
\* read off the response and the instances it was about.
AppliedSomething(r) ==
  LET v == verification[r]
      n == Len(before[r])
      removable == { i \in SeqRange(v.wrong_indices) : i >= 0 /\ i < n }
  IN \/ removable # {}
     \/ \E k \in 1..Len(v.corrections) :
          /\ v.corrections[k].index \notin removable
          /\ v.corrections[k].index >= 0 /\ v.corrections[k].index < n
     \/ Len(v.missing) > 0

\* The number of verify calls of r that have been answered.
RoundsAnswered(r) ==
  IF rpc[r] = "verifying" \/ exit[r] = "verifyFailed"
    THEN verifyCalls[r] - 1
    ELSE verifyCalls[r]

EndedStable(r) == exit[r] = "stable" /\ ~AppliedSomething(r)

EndedComplete(r) == exit[r] = "complete" /\ AppliedSomething(r) /\ verification[r].complete

EndedAtMaxRounds(r) ==
  /\ exit[r] = "maxRounds"
  /\ AppliedSomething(r) /\ ~verification[r].complete
  /\ verifyCalls[r] = maxVerifyRounds

EndedOnFailedVerify(r) == exit[r] = "verifyFailed" /\ instances[r] = overlay[r]

C14_VerifyCallsBounded ==
  \A r \in DetectorRegions :
    /\ verifyCalls[r] <= maxVerifyRounds
    /\ maxVerifyRounds = 0 =>
         /\ verifyCalls[r] = 0
         /\ rpc[r] \in {"detecting", "returned"}

\* With two rounds allowed both verify calls were issued and answered with
\* changes, and the detector has returned what was left.
C14_Witness ==
  \E r \in DetectorRegions :
    /\ maxVerifyRounds = 2
    /\ verifyCalls[r] = 2
    /\ exit[r] = "maxRounds"
    /\ result[r] # << >>

(***************************************************************************)
(* C15.  Within one Region Detector run the calls are strictly ordered:    *)
(* no verify call is issued while the detect call is pending; while the    *)
(* image of round k+1 is rendered or its verify call is pending, the       *)
(* responses of all k earlier rounds have been applied, and the input of   *)
(* the call (the instances drawn on the image, and their number) is        *)
(* exactly the instance set round k produced, dedup included, or the       *)
(* detected set in the first round.                                        *)
(***************************************************************************)
C15_CallsStrictlyOrdered ==
  \A r \in DetectorRegions :
    /\ rpc[r] = "detecting" => verifyCalls[r] = 0
    /\ rpc[r] \in {"building", "verifying"} =>
         /\ verifyCalls[r] = round[r] + (IF rpc[r] = "verifying" THEN 1 ELSE 0)
         /\ overlay[r] = instances[r]
         /\ round[r] > 0 => instances[r] = dedupeObjectsByGeometry(afterApply[r])
         /\ round[r] = 0 => /\ instances[r] # << >>
                            /\ verification[r] = NoVerification

\* The second verify call is pending; the first round added an instance
\* that the dedup merged away again, so the set before the dedup differs
\* from the one the call is about.
C15_Witness ==
  \E r \in DetectorRegions :
    /\ rpc[r] = "verifying"
    /\ round[r] = 1
    /\ verifyCalls[r] = 2
    /\ Len(afterApply[r]) > Len(instances[r])

(***************************************************************************)
(* C16.  In one verification round removals are applied first, then        *)
(* corrections, then additions.  For the instances before the round, the   *)
(* response and the instances after it (before any dedup): the instances   *)
(* not removed keep their order; the one that stood at pre-removal index i *)
(* stands at i minus the number of removed indices below i, with the box   *)
(* of the last correction addressed to i if there is one, and otherwise    *)
(* unchanged; the missing instances follow, in order, with the kind's      *)
(* label and type.  With removals [1,3] and a correction of index 4 to     *)
(* box X, post-removal index 2 holds box X.                                *)
(***************************************************************************)
C16_RemovalsCorrectionsAdditions ==
  \A r \in DetectorRegions :
    RoundsAnswered(r) > 0 =>
      LET pre == before[r]
          v == verification[r]
          post == afterApply[r]
          n == Len(pre)
          removed == { i \in SeqRange(v.wrong_indices) : i >= 0 /\ i < n }
          left == n - Cardinality(removed)
          position(i) == i - Cardinality({ w \in removed : w < i })
          addressed(i) == { k \in 1..Len(v.corrections) : v.corrections[k].index = i }
          last(i) == CHOOSE k \in addressed(i) : \A j \in addressed(i) : j <= k
      IN /\ Len(post) = left + Len(v.missing)
         /\ \A i \in (0..(n - 1)) \ removed :
              post[position(i) + 1] =
                IF addressed(i) # {}
                  THEN [pre[i + 1] EXCEPT
                          !.box_2d = normalizeBox(v.corrections[last(i)].box_2d)]
                  ELSE pre[i + 1]
         /\ \A k \in 1..Len(v.missing) :
              post[left + k] =
                [label |-> KindOf(r).kind, type |-> KindOf(r).type,
                 box_2d |-> normalizeBox(v.missing[k].box_2d), aliases |-> {}]
         /\ ( /\ n = 5
              /\ v.wrong_indices = << 1, 3 >>
              /\ \E k \in 1..Len(v.corrections) :
                   v.corrections[k] = [index |-> 4, box_2d |-> BoxXSwapped] )
            => post[2 + 1].box_2d = BoxX

\* The round of the scenario has been applied to five instances: three are
\* left, the first two as they were and the third with box X.
C16_Witness ==
  \E r \in DetectorRegions :
    /\ RoundsAnswered(r) > 0
    /\ Len(before[r]) = 5
    /\ verification[r].wrong_indices = << 1, 3 >>
    /\ Len(afterApply[r]) = 3
    /\ afterApply[r][1] = before[r][1]
    /\ afterApply[r][2] = before[r][3]
    /\ afterApply[r][3].box_2d = BoxX

(***************************************************************************)
(* C17, as stated.  A region whose detect call or whose verify call failed *)
(* returns no instances.                                                   *)
(***************************************************************************)
C17_FailureContributesNothing ==
  \A r \in DetectorRegions :
    exit[r] \in {"detectFailed", "verifyFailed"} => result[r] = << >>

(***************************************************************************)
(* C17, amended.  A region whose detect call failed returns no instances;  *)
(* a region whose verify call failed returns the instances that call was   *)
(* asked about, those shown on its overlay.                                *)
(***************************************************************************)
C17_FailureContribution ==
  \A r \in DetectorRegions :
    /\ exit[r] = "detectFailed" => result[r] = << >>
    /\ exit[r] = "verifyFailed" => result[r] = overlay[r]

\* A verify call failed in the second round, and the region returns the
\* instances left by the first round, which changed them.
C17_Witness ==
  \E r \in DetectorRegions :
    /\ exit[r] = "verifyFailed"
    /\ verifyCalls[r] = 2
    /\ Len(result[r]) > 0
    /\ result[r] # before[r]

(***************************************************************************)
(* runDetection, the processing of the kinds: every kind has a callback    *)
(* under one Promise.all.  Two kinds are processed: the first is detected  *)
(* on the quadrants assigned to it, each quadrant with a callback under a  *)
(* Promise.all of its own; the second is detected on the full image.       *)
(***************************************************************************)
Image == [width |-> 1000, height |-> 800]

\* rKind.quadrants of the first kind: the first NumQuadrants of these
QuadrantNames == << "bottom-left", "bottom-right", "top-left", "top-right" >>

Quadrants == 1..NumQuadrants

FullRegion == NumQuadrants + 1

RunRegions == 1..FullRegion

\* Math.floor(imageWidth * 0.55) and Math.floor(imageWidth * 0.45)
FloorPct(n, pct) == (n * pct) \div 100

getQuadrantDefs(imageWidth, imageHeight) ==
  LET halfW == FloorPct(imageWidth, 55)
      halfH == FloorPct(imageHeight, 55)
      offsetX == FloorPct(imageWidth, 45)
      offsetY == FloorPct(imageHeight, 45)
  IN { [name |-> "top-left", left |-> 0, top |-> 0, width |-> halfW, height |-> halfH],
       [name |-> "top-right", left |-> offsetX, top |-> 0,
        width |-> imageWidth - offsetX, height |-> halfH],
       [name |-> "bottom-left", left |-> 0, top |-> offsetY,
        width |-> halfW, height |-> imageHeight - offsetY],
       [name |-> "bottom-right", left |-> offsetX, top |-> offsetY,
        width |-> imageWidth - offsetX, height |-> imageHeight - offsetY] }

\* quadrantDefs.find(q => q.name === qName)
QuadrantDef(qName) ==
  CHOOSE q \in getQuadrantDefs(Image.width, Image.height) : q.name = qName

\* Math.round(num / den), num >= 0
Round(num, den) == (2 * num + den) \div (2 * den)

\* clamp(Math.round(((offset + (x / 1000) * size) / full) * 1000), 0, 1000)
MapCoordinate(x, offset, size, full) ==
  clamp(Round(offset * 1000 + x * size, full), 0, 1000)

\* the mapping of a quadrant's box back to the full image
MapQuadrantBox(box, q) ==
  LET b == normalizeBox(box)
  IN << MapCoordinate(b[1], q.left, q.width, Image.width),
        MapCoordinate(b[2], q.top, q.height, Image.height),
        MapCoordinate(b[3], q.left, q.width, Image.width),
        MapCoordinate(b[4], q.top, q.height, Image.height) >>

MapQuadrantInstances(insts, q) ==
  [k \in 1..Len(insts) |-> [insts[k] EXCEPT !.box_2d = MapQuadrantBox(insts[k].box_2d, q)]]

\* Array.prototype.flat, of the first n lists
RECURSIVE FlatUpTo(_, _)
FlatUpTo(lists, n) ==
  IF n = 0 THEN << >> ELSE FlatUpTo(lists, n - 1) \o lists[n]

Flat(lists) == FlatUpTo(lists, Len(lists))

\* Variant: the failures of the detect and verify calls leave the function
\* as exceptions too.
PropagatesAnyFailure(how) == how \in {"buildFailed", "detectFailed", "verifyFailed"}

\* detectAndVerifyRegion catches what its detect call and its verify calls
\* throw; what buildVerificationImage throws leaves it as an exception.
Propagates(how) == how = "buildFailed"

beyondRun == << poolVars, usageVars, tilerVars, discoveryVars, kernelVars >>

\* The verification image cannot be built: detectAndVerifyRegion throws.
BuildFails(r) ==
  /\ rpc[r] = "building"
  /\ rpc' = [rpc EXCEPT ![r] = "threw"]
  /\ exit' = [exit EXCEPT ![r] = "buildFailed"]
  /\ UNCHANGED << maxVerifyRounds, kindGroups, allVerified, instances, round, overlay, result, verifyCalls,
                  before, verification, afterApply, beyondDetector >>

Ended(r) == rpc[r] \in {"returned", "threw"}

\* The callback of a quadrant after its detectAndVerifyRegion: the mapped
\* instances, or [] from its catch.
QuadrantSettles(r) ==
  /\ r \in Quadrants
  /\ Ended(r)
  /\ ~quadrantResults[r].done
  /\ quadrantResults' =
       [quadrantResults EXCEPT
          ![r] = [done |-> TRUE,
                  objects |-> IF Propagates(exit[r])
                                THEN << >>
                                ELSE MapQuadrantInstances(result[r],
                                                          QuadrantDef(QuadrantNames[r]))]]
  /\ UNCHANGED << kindResults, allObjects, runPc, detectorVars, beyondRun >>

\* Variant: the wait is over as soon as one callback has returned.
AnySettled(results) == \E r \in DOMAIN results : results[r].done

\* await Promise.all(...) over callbacks none of which throws: the wait is
\* over when every callback has returned.
AllSettled(results) == \A r \in DOMAIN results : results[r].done

\* The callback of the first kind after the Promise.all of its quadrants:
\* merge and dedupe across quadrants.
QuadrantsMerge ==
  /\ kindResults[1].state = "pending"
  /\ AllSettled(quadrantResults)
  /\ LET allInstances == Flat([r \in Quadrants |-> quadrantResults[r].objects])
     IN kindResults' =
          [kindResults EXCEPT
             ![1] = [state |-> "fulfilled",
                     objects |-> dedupeObjectsByGeometry(allInstances)]]
  /\ UNCHANGED << quadrantResults, allObjects, runPc, detectorVars, beyondRun >>

\* The callback of the second kind after its detectAndVerifyRegion; nothing
\* catches what that throws.
FullSettles ==
  /\ kindResults[2].state = "pending"
  /\ Ended(FullRegion)
  /\ kindResults' =
       [kindResults EXCEPT
          ![2] = IF Propagates(exit[FullRegion])
                   THEN [state |-> "rejected", objects |-> << >>]
                   ELSE [state |-> "fulfilled", objects |-> result[FullRegion]]]
  /\ UNCHANGED << quadrantResults, allObjects, runPc, detectorVars, beyondRun >>

\* await Promise.all(...) over the kinds is fulfilled: results.flat() and
\* the global deduplication.
RunFinishes ==
  /\ runPc = "processing"
  /\ \A k \in DOMAIN kindResults : kindResults[k].state = "fulfilled"
  /\ allObjects' =
       dedupeObjectsByGeometry(Flat([k \in DOMAIN kindResults |-> kindResults[k].objects]))
  /\ runPc' = "deduped"
  /\ UNCHANGED << quadrantResults, kindResults, detectorVars, beyondRun >>

\* await Promise.all(...) over the kinds is rejected: runDetection throws.
RunAborts ==
  /\ runPc = "processing"
  /\ \E k \in DOMAIN kindResults : kindResults[k].state = "rejected"
  /\ runPc' = "aborted"
  /\ UNCHANGED << quadrantResults, kindResults, allObjects, detectorVars, beyondRun >>

\* InstancesSchema and VerifyResponseSchema responses of the run
RunDetectResponses == { << >>, << Obj(BoxAt(0)), Obj(BoxAt(1)) >> }

RunVerifyResponses ==
  { NoVerification, [NoVerification EXCEPT !.wrong_indices = << 0 >>] }

RunInit ==
  /\ maxVerifyRounds = MaxVerifyRounds
  /\ RegionsStarted(RunRegions)
  /\ quadrantResults = [r \in Quadrants |-> [done |-> FALSE, objects |-> << >>]]
  /\ kindResults = [k \in 1..Len(<< TheKind, StagKind >>) |->
                      [state |-> "pending", objects |-> << >>]]
  /\ allObjects = << >>
  /\ runPc = "processing"
  /\ PoolUnused
  /\ TilerAtRest
  /\ DiscoveryAtRest
  /\ KernelAtRest

RunNext ==
  \/ \E r \in RunRegions, objects \in RunDetectResponses : DetectReturns(r, objects)
  \/ \E r \in RunRegions : DetectFails(r)
  \/ \E r \in RunRegions : BuildReturns(r)
  \/ \E r \in RunRegions : BuildFails(r)
  \/ \E r \in RunRegions, v \in RunVerifyResponses : VerifyReturns(r, v)
  \/ \E r \in RunRegions : VerifyFails(r)
  \/ \E r \in Quadrants : QuadrantSettles(r)
  \/ QuadrantsMerge
  \/ FullSettles
  \/ RunFinishes
  \/ RunAborts

RunSpec == RunInit /\ [][RunNext]_vars

(***************************************************************************)
(* What the properties of the run speak of.                                *)
(***************************************************************************)
\* Region r ended on a detect call or a verify call that failed.
CallFailed(r) == exit[r] \in {"detectFailed", "verifyFailed"}

\* The instances region r returned, in the coordinates of the full image.
Contribution(r) ==
  IF r \in Quadrants
    THEN MapQuadrantInstances(result[r], QuadrantDef(QuadrantNames[r]))
    ELSE result[r]

\* objects holds x, or an object the dedup took x to be a duplicate of.
Appears(x, objects) ==
  \E k \in 1..Len(objects) :
    \/ /\ objects[k].label = x.label
       /\ objects[k].type = x.type
       /\ objects[k].box_2d = x.box_2d
    \/ MatchesKept(x, objects[k])

\* Some region awaits an answer, or some callback or the run itself has
\* what it awaits.
CanProceed ==
  \/ \E r \in RunRegions : rpc[r] \in {"detecting", "building", "verifying"}
  \/ \E r \in Quadrants : Ended(r) /\ ~quadrantResults[r].done
  \/ kindResults[1].state = "pending" /\ \A r \in Quadrants : quadrantResults[r].done
  \/ kindResults[2].state = "pending" /\ Ended(FullRegion)
  \/ \A k \in DOMAIN kindResults : kindResults[k].state = "fulfilled"
  \/ \E k \in DOMAIN kindResults : kindResults[k].state = "rejected"

(***************************************************************************)
(* C18.  A detect or verify call that fails in one region never aborts the *)
(* run: the run is aborted only if a verification image could not be       *)
(* built; as long as the run is in progress some step of it can be taken;  *)
(* and once the run has its objects, every region has ended and the        *)
(* instances every region returned appear among them.                      *)
(***************************************************************************)
C18_FailedCallNeverAborts ==
  /\ runPc = "aborted" => \E r \in RunRegions : exit[r] = "buildFailed"
  /\ runPc = "processing" => CanProceed
  /\ runPc = "deduped" =>
       \A r \in RunRegions :
         /\ Ended(r)
         /\ \A k \in 1..Len(Contribution(r)) : Appears(Contribution(r)[k], allObjects)

\* The run has its objects although the detect call of the first quadrant
\* and a verify call of the second failed; the instances of the second
\* quadrant and of the full image are among them.
C18_Witness ==
  /\ runPc = "deduped"
  /\ exit[1] = "detectFailed"
  /\ exit[2] = "verifyFailed"
  /\ ~CallFailed(FullRegion)
  /\ Len(result[2]) > 0
  /\ Len(result[FullRegion]) > 0
  /\ Len(allObjects) >= Len(result[2]) + Len(result[FullRegion])

\* What region r holds of its own: its position, its instances and what it
\* returned.
RegionState(r) ==
  << rpc[r], instances[r], round[r], overlay[r], result[r], exit[r], verifyCalls[r] >>

\* The instances region r can hold after a step, given its own position
\* and instances and the answers a call can get.
OwnOutcomes(r) ==
  IF rpc[r] = "detecting"
    THEN { DetectedInstances(objects, KindOf(r)) : objects \in RunDetectResponses }
           \cup { instances[r] }
  ELSE IF rpc[r] = "verifying"
    THEN { ApplyVerification(instances[r], v, KindOf(r)).instances : v \in RunVerifyResponses }
           \cup { dedupeObjectsByGeometry(ApplyVerification(instances[r], v, KindOf(r)).instances) :
                    v \in RunVerifyResponses }
           \cup { instances[r] }
  ELSE { instances[r] }

\* The merge of the quadrants has run.
Merged == kindResults[1].state = "fulfilled"

(***************************************************************************)
(* C21.  The merge of sibling results runs only after the Detect-then-     *)
(* Verify sequence of every sibling region has completed: when the         *)
(* quadrants of a kind are merged every quadrant has ended, the merge is   *)
(* the dedup of the union of what the quadrants returned, and the global   *)
(* dedup runs only when every region of every kind has ended.  No sibling  *)
(* reads another sibling's results while it runs: a step of a region       *)
(* leaves every other region and every merged result as they were, no      *)
(* merge of its siblings exists while it runs, and what it holds after the *)
(* step follows from what it held itself and the answer to its call.       *)
(***************************************************************************)
C21_MergeAfterAllSiblings ==
  [][ /\ Merged' =>
           /\ \A r \in Quadrants : Ended(r)' /\ RegionState(r)' = RegionState(r)
           /\ kindResults'[1].objects =
                dedupeObjectsByGeometry(
                  Flat([r \in Quadrants |->
                          IF Propagates(exit[r]) THEN << >> ELSE Contribution(r)]))
      /\ runPc' = "deduped" => \A r \in RunRegions : Ended(r)
      /\ \A r \in RunRegions :
           RegionState(r)' # RegionState(r) =>
             /\ \A s \in RunRegions \ {r} : RegionState(s)' = RegionState(s)
             /\ << quadrantResults, kindResults, allObjects, runPc >>' =
                  << quadrantResults, kindResults, allObjects, runPc >>
             /\ r \in Quadrants => ~Merged
             /\ runPc # "deduped"
             /\ instances'[r] \in OwnOutcomes(r) ]_vars

\* The two quadrants of the first kind returned instances and were merged
\* while the region of the second kind still awaits its detect call.
C21_Witness ==
  /\ Merged
  /\ \A r \in Quadrants : Len(result[r]) > 0
  /\ Len(kindResults[1].objects) > 0
  /\ rpc[FullRegion] = "detecting"

(***************************************************************************)
(* The tilers.  adaptiveSubdivide (detector-original.ts) works through a   *)
(* stack of tiles, estimating the count of the kind in each and            *)
(* subdividing the crowded ones; RecursiveDetector.processNode             *)
(* (recursive_detector.ts) splits a region when its discovery asks to zoom *)
(* in and processes the four children concurrently.  A run uses one of the *)
(* two.  What a region detects is left to the Region Detector above.       *)
(***************************************************************************)
MaxEstimateFaults == 1   \* count estimates that fail in one run
MaxDepth == 2            \* config.maxDepth is 1 .. MaxDepth
MaxZooms == 2            \* discoveries that ask to zoom in, in one run

SmallObjectMaxDepth == 2
MinTileSizeFloor == 64
DefaultMinTileSize == 256

\* COUNT_LEVELS
COUNT_LEVELS == [few |-> 1, moderate |-> 2, many |-> 3, very_many |-> 4]

CountEstimates == DOMAIN COUNT_LEVELS

isCountAboveThreshold(count, threshold) == COUNT_LEVELS[count] > COUNT_LEVELS[threshold]

\* threshold: 'moderate' in detectAndVerifyAdaptive
Threshold == "moderate"

rootTile(imageWidth, imageHeight) ==
  [row |-> 0, col |-> 0, left |-> 0, top |-> 0,
   width |-> imageWidth, height |-> imageHeight,
   label |-> << "root" >>, depth |-> 0]

\* `.q${row}${col}`
QuadrantLabel(row, col) ==
  IF row = 0 THEN (IF col = 0 THEN "q00" ELSE "q01")
             ELSE (IF col = 0 THEN "q10" ELSE "q11")

\* subdivideIntoQuadrants, QUADRANT_OVERLAP_PCT = 0.15
subdivideIntoQuadrants(t, fullImageWidth, fullImageHeight) ==
  LET halfW == t.width \div 2
      halfH == t.height \div 2
      overlapX == Round(halfW * 15, 100)
      overlapY == Round(halfH * 15, 100)
      quadrant(row, col, l, tp, r, b) ==
        LET clampedLeft == Max(0, l)
            clampedTop == Max(0, tp)
            clampedRight == Min(fullImageWidth, r)
            clampedBottom == Min(fullImageHeight, b)
        IN [row |-> row, col |-> col,
            left |-> clampedLeft, top |-> clampedTop,
            width |-> clampedRight - clampedLeft,
            height |-> clampedBottom - clampedTop,
            label |-> Append(t.label, QuadrantLabel(row, col)),
            depth |-> t.depth + 1]
  IN << quadrant(0, 0, t.left, t.top,
                 t.left + halfW + overlapX, t.top + halfH + overlapY),
        quadrant(0, 1, t.left + halfW - overlapX, t.top,
                 t.left + t.width, t.top + halfH + overlapY),
        quadrant(1, 0, t.left, t.top + halfH - overlapY,
                 t.left + halfW + overlapX, t.top + t.height),
        quadrant(1, 1, t.left + halfW - overlapX, t.top + halfH - overlapY,
                 t.left + t.width, t.top + t.height) >>

\* Variant: a crowded tile is subdivided whatever its depth.
SubdividesAtAnyDepth(count, depth) == isCountAboveThreshold(count, Threshold)

\* if (isCountAboveThreshold(count, threshold) && depth < maxDepth)
Subdivides(count, depth) == isCountAboveThreshold(count, Threshold) /\ depth < maxDepth

\* Variant: a tile whose estimate failed is taken to be dense.
FailedEstimateAssumesDense(depth) == depth < maxDepth

\* catch of the estimate: finalTiles.push(tile); continue
FailedEstimateSubdivides(depth) == FALSE

beyondTiler == << poolVars, usageVars, detectorVars, runVars, discoveryVars, kernelVars >>

\* The rest of the loop body for the tile, subdivided or kept, and the top
\* of the next iteration: pendingTiles.pop() and the crop of that tile.
TileDecided(subdivide) ==
  LET pending == IF subdivide
                   THEN pendingTiles \o subdivideIntoQuadrants(tile, Image.width, Image.height)
                   ELSE pendingTiles
  IN /\ finalTiles' = IF subdivide THEN finalTiles ELSE Append(finalTiles, tile)
     /\ IF Len(pending) > 0
          THEN /\ tile' = pending[Len(pending)]
               /\ pendingTiles' = SubSeq(pending, 1, Len(pending) - 1)
          ELSE /\ tile' = NoTile
               /\ pendingTiles' = pending

\* estimateCountInRegion returns count.
EstimateReturns(count) ==
  /\ tiler = "adaptive"
  /\ tile # NoTile
  /\ TileDecided(Subdivides(count, tile.depth))
  /\ UNCHANGED << tiler, maxDepth, minTileSize, failedTiles, nodes, zooms, nodeResults,
                  beyondTiler >>

\* estimateCountInRegion fails.
EstimateFails ==
  /\ tiler = "adaptive"
  /\ tile # NoTile
  /\ Cardinality(failedTiles) < MaxEstimateFaults
  /\ failedTiles' = failedTiles \cup {tile.label}
  /\ TileDecided(FailedEstimateSubdivides(tile.depth))
  /\ UNCHANGED << tiler, maxDepth, minTileSize, nodes, zooms, nodeResults, beyondTiler >>

\* adaptiveSubdivide has been called and awaits the estimate for the root
\* tile.
AdaptiveInit ==
  /\ tiler = "adaptive"
  /\ maxDepth = SmallObjectMaxDepth
  /\ minTileSize = 0
  /\ pendingTiles = << >>
  /\ finalTiles = << >>
  /\ tile = rootTile(Image.width, Image.height)
  /\ failedTiles = {}
  /\ nodes = << >>
  /\ zooms = 0
  /\ nodeResults = << >>

\* The image of the recursive detector.
RecursiveImage == [width |-> 600, height |-> 400]

\* run(): rootCtx
RootPath == << >>

rootCtx ==
  [depth |-> 0,
   rect |-> [left |-> 0, top |-> 0,
             width |-> RecursiveImage.width, height |-> RecursiveImage.height],
   status |-> "processing"]

\* splitAndRecurse: the contexts of the four children, by index
ChildContexts(ctx) ==
  LET rect == ctx.rect
      halfW == rect.width \div 2
      halfH == rect.height \div 2
      overlapX == halfW \div 10
      overlapY == halfH \div 10
      child(l, tp) ==
        LET childL == rect.left + l
            childT == rect.top + tp
            childW == IF childL + halfW + overlapX > rect.left + rect.width
                        THEN (rect.left + rect.width) - childL
                        ELSE halfW + overlapX
            childH == IF childT + halfH + overlapY > rect.top + rect.height
                        THEN (rect.top + rect.height) - childT
                        ELSE halfH + overlapY
        IN [depth |-> ctx.depth + 1,
            rect |-> [left |-> childL, top |-> childT,
                      width |-> childW, height |-> childH],
            status |-> "processing"]
  IN << child(0, 0),
        child(halfW - overlapX, 0),
        child(0, halfH - overlapY),
        child(halfW - overlapX, halfH - overlapY) >>

\* Variant: the size of the tile is not looked at.
MaySplitAtAnySize(depth, rect) == ~(depth >= maxDepth)

\* processNode, step 4: neither "max depth reached" nor "tile too small"
MaySplit(depth, rect) ==
  /\ ~(depth >= maxDepth)
  /\ ~(rect.width < minTileSize \/ rect.height < minTileSize)

(***************************************************************************)
(* The mapping of a box of a region to the full image.                     *)
(***************************************************************************)
\* Variant: the coordinate is cut off instead of rounded.
MapTileCoordinateTruncated(x, offset, size, full) ==
  IF offset * 1000 + x * size < 0 THEN 0
  ELSE IF offset * 1000 + x * size > 1000 * full THEN 1000
  ELSE (offset * 1000 + x * size) \div full

\* Math.round(clamp((offset + (x / 1000) * size) / full * 1000, 0, 1000))
MapTileCoordinate(x, offset, size, full) ==
  IF offset * 1000 + x * size < 0 THEN 0
  ELSE IF offset * 1000 + x * size > 1000 * full THEN 1000
  ELSE Round(offset * 1000 + x * size, full)

mapTileBoxToFullImage(tileBox, t, fullImageWidth, fullImageHeight) ==
  << MapTileCoordinate(tileBox[1], t.left, t.width, fullImageWidth),
     MapTileCoordinate(tileBox[2], t.top, t.height, fullImageHeight),
     MapTileCoordinate(tileBox[3], t.left, t.width, fullImageWidth),
     MapTileCoordinate(tileBox[4], t.top, t.height, fullImageHeight) >>

\* RecursiveDetector.localToGlobalBox
localToGlobalBox(localBox, tileRect, globalSize) ==
  mapTileBoxToFullImage(normalizeBox(localBox), tileRect, globalSize.width, globalSize.height)

ChildPaths(path) == { Append(path, i) : i \in 0..3 }

\* this.results.push({label, type, box_2d: globalBox, depth, ...}) for each
\* object of detected
PushResults(list, detected, rect, depth) ==
  list \o [k \in 1..Len(detected) |->
            [label |-> detected[k].label, type |-> detected[k].type,
             box_2d |-> localToGlobalBox(detected[k].box_2d, rect, RecursiveImage),
             depth |-> depth]]

\* processNode of the region at path gets its discovery, detects what the
\* discovery names (detected, which it pushes on this.results) and reaches
\* step 4: it splits, awaiting its children, or returns.
ProcessNode(path, needsZoom, detected) ==
  /\ tiler = "recursive"
  /\ path \in DOMAIN nodes
  /\ nodes[path].status = "processing"
  /\ needsZoom => zooms < MaxZooms
  /\ zooms' = IF needsZoom THEN zooms + 1 ELSE zooms
  /\ IF needsZoom /\ MaySplit(nodes[path].depth, nodes[path].rect)
       THEN LET children == ChildContexts(nodes[path])
            IN nodes' = [p \in DOMAIN nodes \cup ChildPaths(path) |->
                           IF p = path THEN [nodes[p] EXCEPT !.status = "waiting"]
                           ELSE IF p \in DOMAIN nodes THEN nodes[p]
                           ELSE children[p[Len(p)] + 1]]
       ELSE nodes' = [nodes EXCEPT ![path].status = "done"]
  /\ nodeResults' = PushResults(nodeResults, detected, nodes[path].rect, nodes[path].depth)
  /\ UNCHANGED << tiler, maxDepth, minTileSize, pendingTiles, finalTiles, tile,
                  failedTiles, beyondTiler >>

\* await Promise.all(promises) in splitAndRecurse: the children have
\* returned, and so does processNode of the region at path.
NodeResolves(path) ==
  /\ tiler = "recursive"
  /\ path \in DOMAIN nodes
  /\ nodes[path].status = "waiting"
  /\ \A p \in ChildPaths(path) : nodes[p].status = "done"
  /\ nodes' = [nodes EXCEPT ![path].status = "done"]
  /\ UNCHANGED << tiler, maxDepth, minTileSize, pendingTiles, finalTiles, tile,
                  failedTiles, zooms, nodeResults, beyondTiler >>

\* run() has called processNode for the root.
RecursiveInit ==
  /\ tiler = "recursive"
  /\ maxDepth \in 1..MaxDepth
  /\ minTileSize \in {MinTileSizeFloor, DefaultMinTileSize}
  /\ pendingTiles = << >>
  /\ finalTiles = << >>
  /\ tile = NoTile
  /\ failedTiles = {}
  /\ nodes = [p \in {RootPath} |-> rootCtx]
  /\ zooms = 0
  /\ nodeResults = << >>

TilerInit ==
  /\ AdaptiveInit \/ RecursiveInit
  /\ PoolUnused
  /\ DetectorAtRest
  /\ RunAtRest
  /\ DiscoveryAtRest
  /\ KernelAtRest

\* The tilers are followed in regions where nothing is detected.
NothingDetected == << >>

TilerNext ==
  \/ \E count \in CountEstimates : EstimateReturns(count)
  \/ EstimateFails
  \/ \E path \in DOMAIN nodes, needsZoom \in BOOLEAN :
       ProcessNode(path, needsZoom, NothingDetected)
  \/ \E path \in DOMAIN nodes : NodeResolves(path)

TilerSpec == TilerInit /\ [][TilerNext]_vars

(***************************************************************************)
(* What the properties of the tilers speak of.                             *)
(***************************************************************************)
\* The tiles adaptiveSubdivide holds: pending, final and the one at hand.
AllTiles ==
  { pendingTiles[k] : k \in 1..Len(pendingTiles) } \cup
  { finalTiles[k] : k \in 1..Len(finalTiles) } \cup
  (IF tile = NoTile THEN {} ELSE {tile})

\* Label inner names a tile made by subdividing the tile labelled outer, or
\* by subdividing one made so.
Within(inner, outer) ==
  /\ Len(inner) > Len(outer)
  /\ SubSeq(inner, 1, Len(outer)) = outer

\* The regions at or below one of depth d if every subdivision the depth
\* allows is made.
RECURSIVE TreeSize(_)
TreeSize(d) == IF d >= maxDepth THEN 1 ELSE 1 + 4 * TreeSize(d + 1)

RECURSIVE PendingWork(_)
PendingWork(n) ==
  IF n = 0 THEN 0 ELSE PendingWork(n - 1) + TreeSize(pendingTiles[n].depth)

\* Twice the tree below every node in processing of depth d or less, and 1
\* for every node that waits for its children.
RECURSIVE NodesWork(_)
NodesWork(d) ==
  IF d < 0 THEN Cardinality({p \in DOMAIN nodes : nodes[p].status = "waiting"})
  ELSE 2 * TreeSize(d) *
         Cardinality({p \in DOMAIN nodes :
                        nodes[p].status = "processing" /\ nodes[p].depth = d})
       + NodesWork(d - 1)

\* A bound on the steps the tiler has left.
Work ==
  PendingWork(Len(pendingTiles))
    + (IF tile = NoTile THEN 0 ELSE TreeSize(tile.depth))
    + NodesWork(MaxDepth)

(***************************************************************************)
(* C19, as stated.  A tile whose count estimate failed is kept as it is    *)
(* only where the depth allows no subdivision.                             *)
(***************************************************************************)
C19_FailedEstimateSubdivides ==
  \A t \in AllTiles :
    (t.label \in failedTiles /\ t # tile) => ~(t.depth < maxDepth)

(***************************************************************************)
(* C19, amended.  A tile whose count estimate failed is kept as it is: it  *)
(* is among the final tiles and no tile was made by subdividing it.        *)
(***************************************************************************)
C19_FailedEstimateKeepsTile ==
  \A label \in failedTiles :
    /\ \E k \in 1..Len(finalTiles) : finalTiles[k].label = label
    /\ \A t \in AllTiles : ~Within(t.label, label)

\* adaptiveSubdivide is through: the root was subdivided, and the estimate
\* of a quadrant that the depth allowed to subdivide failed.
C19_Witness ==
  /\ tiler = "adaptive"
  /\ tile = NoTile
  /\ Len(pendingTiles) = 0
  /\ \E k \in 1..Len(finalTiles) :
       /\ finalTiles[k].label \in failedTiles
       /\ finalTiles[k].depth = 1
       /\ finalTiles[k].depth < maxDepth

MaxKinds == 2            \* config.maxKinds is 1 .. MaxKinds

\* SIZE_LEVELS
SIZE_LEVELS == [tiny |-> 1, small |-> 2, medium |-> 3, large |-> 4, giant |-> 5]

\* KindSchema: kinds the model answers with
KHound ==
  [kind |-> "hound", type |-> "animal", estimated_count |-> "few",
   estimated_size |-> "medium", segmentation |-> "individual", importance |-> "primary"]

KHoundAgain ==
  [kind |-> "Hound", type |-> "animal", estimated_count |-> "many",
   estimated_size |-> "small", segmentation |-> "representative", importance |-> "secondary"]

KStag ==
  [kind |-> "stag", type |-> "animal", estimated_count |-> "moderate",
   estimated_size |-> "medium", segmentation |-> "individual", importance |-> "secondary"]

KCloud ==
  [kind |-> "cloud", type |-> "landscape", estimated_count |-> "many",
   estimated_size |-> "medium", segmentation |-> "region", importance |-> "background"]

\* KindSchema responses
KindResponses ==
  { << >>,
    << KHound, KHoundAgain, KStag >>,
    << KCloud, KHound >>,
    << KStag, KCloud, KHoundAgain >> }

\* KindSchema responses for a quadrant
QuadrantKindResponses == { << >>, << KCloud, KStag >> }

\* ReconciliationSchema: a kind of the reconciliation
Reconciled(k, isReal, quadrants, scale) ==
  [kind |-> k.kind, type |-> k.type, is_real |-> isReal, quadrants |-> quadrants,
   estimated_count |-> k.estimated_count, estimated_size |-> k.estimated_size,
   segmentation |-> k.segmentation, importance |-> k.importance,
   detection_scale |-> scale]

\* ReconciliationSchema responses
ReconcileResponses ==
  { << >>,
    << Reconciled(KCloud, FALSE, << >>, "full") >>,
    << Reconciled(KHound, TRUE, << "bottom-left", "bottom-right" >>, "quadrant"),
       Reconciled(KStag, TRUE, << "bottom-right" >>, "full") >>,
    << Reconciled(KCloud, TRUE, << "top-left" >>, "full"),
       Reconciled(KStag, FALSE, << >>, "full"),
       Reconciled(KHound, TRUE, << "bottom-left" >>, "quadrant"),
       Reconciled(KStag, TRUE, << "bottom-right" >>, "full") >> }

\* dedupeKinds: the index in seen of the kind with the key, 0 if none
SeenIndex(seen, type, normalizedKind) ==
  IF \E i \in 1..Len(seen) : seen[i].type = type /\ seen[i].kind = normalizedKind
    THEN CHOOSE i \in 1..Len(seen) : seen[i].type = type /\ seen[i].kind = normalizedKind
    ELSE 0

\* dedupeKinds: the loop over the kinds from the k-th on.  The schema makes
\* every field of a kind present.
RECURSIVE DedupeKindsFrom(_, _, _)
DedupeKindsFrom(kinds, k, seen) ==
  IF k > Len(kinds) THEN seen
  ELSE LET kd == kinds[k]
           normalizedKind == ToLowerCase(Trim(kd.kind))
           i == SeenIndex(seen, kd.type, normalizedKind)
       IN IF i # 0
            THEN LET existing == seen[i]
                     count == IF COUNT_LEVELS[kd.estimated_count] >
                                   COUNT_LEVELS[existing.estimated_count]
                                THEN kd.estimated_count ELSE existing.estimated_count
                     size == IF SIZE_LEVELS[kd.estimated_size] <
                                  SIZE_LEVELS[existing.estimated_size]
                               THEN kd.estimated_size ELSE existing.estimated_size
                 IN DedupeKindsFrom(kinds, k + 1,
                      [seen EXCEPT ![i].estimated_count = count,
                                   ![i].estimated_size = size])
            ELSE DedupeKindsFrom(kinds, k + 1,
                   Append(seen, [kd EXCEPT !.kind = normalizedKind]))

dedupeKinds(kinds) == DedupeKindsFrom(kinds, 1, << >>)

\* Array.prototype.slice(0, n), n >= 0
Slice(seq, n) == SubSeq(seq, 1, Min(n, Len(seq)))

\* Math.ceil(config.maxKinds / 2)
CeilHalf(n) == (n + 1) \div 2

\* result.kinds.filter(k => k.is_real)
RealKinds(kinds) == SelectSeq(kinds, LAMBDA k : k.is_real)

\* The four quadrants of the discovery.
DiscoveryQuadrants == { q.name : q \in getQuadrantDefs(Image.width, Image.height) }

beyondDiscovery == << poolVars, usageVars, detectorVars, tilerVars, kernelVars >>

\* discoverKinds of the full image returns: the quadrant discoveries are
\* started, or reconcileKinds is called.
DiscoverReturns(response) ==
  /\ discoveryPc = "discovering"
  /\ candidateKinds' = dedupeKinds(response)
  /\ fullImageKinds' = Slice(dedupeKinds(response), maxKinds)
  /\ IF multiScaleDiscovery
       THEN /\ discoveryPc' = "quadrants"
            /\ quadrantDiscoveries' =
                 [q \in DiscoveryQuadrants |-> [done |-> FALSE, kinds |-> << >>]]
       ELSE /\ discoveryPc' = "reconciling"
            /\ UNCHANGED quadrantDiscoveries
  /\ UNCHANGED << maxKinds, multiScaleDiscovery, reconciledKinds, runVars, beyondDiscovery >>

\* The call of a discovery step fails after its retries where nothing
\* catches it: runDetection throws.
DiscoveryThrows ==
  /\ discoveryPc' = "failed"
  /\ runPc' = "aborted"
  /\ UNCHANGED << maxKinds, multiScaleDiscovery, fullImageKinds, quadrantDiscoveries,
                  reconciledKinds, candidateKinds, quadrantResults, kindResults,
                  allObjects, beyondDiscovery >>

\* discoverKinds of the full image fails.
DiscoverFails ==
  /\ discoveryPc = "discovering"
  /\ DiscoveryThrows

\* The callback of quadrant q returns kinds; when it is the last one,
\* reconcileKinds is called.
QuadrantDiscovered(q, kinds) ==
  /\ discoveryPc = "quadrants"
  /\ ~quadrantDiscoveries[q].done
  /\ quadrantDiscoveries' =
       [quadrantDiscoveries EXCEPT ![q] = [done |-> TRUE, kinds |-> kinds]]
  /\ discoveryPc' = IF AllSettled(quadrantDiscoveries') THEN "reconciling" ELSE "quadrants"
  /\ UNCHANGED << maxKinds, multiScaleDiscovery, fullImageKinds, reconciledKinds,
                  candidateKinds, runVars, beyondDiscovery >>

\* discoverKinds of quadrant q returns.
QuadrantDiscoverReturns(q, response) ==
  QuadrantDiscovered(q, Slice(dedupeKinds(response), CeilHalf(maxKinds)))

\* discoverKinds of quadrant q fails: the catch of the callback.
QuadrantDiscoverFails(q) == QuadrantDiscovered(q, << >>)

\* reconcileKinds returns; with no kind to process the run goes through
\* Phase 2 and the global deduplication at once.
ReconcileReturns(response) ==
  /\ discoveryPc = "reconciling"
  /\ candidateKinds' = RealKinds(response)
  /\ reconciledKinds' = Slice(RealKinds(response), maxKinds)
  /\ discoveryPc' = "done"
  /\ IF Len(reconciledKinds') = 0
       THEN /\ allObjects' = dedupeObjectsByGeometry(Flat(<< >>))
            /\ runPc' = "deduped"
       ELSE /\ runPc' = "processing"
            /\ UNCHANGED allObjects
  /\ UNCHANGED << maxKinds, multiScaleDiscovery, fullImageKinds, quadrantDiscoveries,
                  quadrantResults, kindResults, beyondDiscovery >>

\* reconcileKinds fails.
ReconcileFails ==
  /\ discoveryPc = "reconciling"
  /\ DiscoveryThrows

\* runDetection has called discoverKinds for the full image.
DiscoveryInit ==
  /\ maxKinds \in 1..MaxKinds
  /\ multiScaleDiscovery \in BOOLEAN
  /\ discoveryPc = "discovering"
  /\ fullImageKinds = << >>
  /\ quadrantDiscoveries = << >>
  /\ reconciledKinds = << >>
  /\ candidateKinds = << >>
  /\ PoolUnused
  /\ DetectorAtRest
  /\ RunAtRest
  /\ TilerAtRest
  /\ KernelAtRest

DiscoveryNext ==
  \/ \E response \in KindResponses : DiscoverReturns(response)
  \/ DiscoverFails
  \/ \E q \in DiscoveryQuadrants, response \in QuadrantKindResponses :
       QuadrantDiscoverReturns(q, response)
  \/ \E q \in DiscoveryQuadrants : QuadrantDiscoverFails(q)
  \/ \E response \in ReconcileResponses : ReconcileReturns(response)
  \/ ReconcileFails

DiscoverySpec == DiscoveryInit /\ [][DiscoveryNext]_vars

(***************************************************************************)
(* C22.  If Kind Discovery fails after exhausting its retries, the run     *)
(* still completes and returns an empty result: it is not rejected.        *)
(***************************************************************************)
C22_DiscoveryFailureCompletesEmpty ==
  discoveryPc = "failed" => /\ runPc = "deduped"
                            /\ allObjects = << >>


\* The kinds the last cut to maxKinds kept, and the kinds it dropped.
KeptKinds == IF discoveryPc = "done" THEN reconciledKinds ELSE fullImageKinds

DroppedKinds == SubSeq(candidateKinds, Len(KeptKinds) + 1, Len(candidateKinds))

(***************************************************************************)
(* C23.  When more kinds are found than the configured maximum kind count, *)
(* the kinds kept are chosen by importance: no background kind is kept     *)
(* while a primary or secondary kind is dropped.                           *)
(***************************************************************************)
C23_CapPrefersImportantKinds ==
  discoveryPc \in {"quadrants", "reconciling", "done"} =>
    \A i \in 1..Len(KeptKinds), j \in 1..Len(DroppedKinds) :
      ~ /\ KeptKinds[i].importance = "background"
        /\ DroppedKinds[j].importance \in {"primary", "secondary"}


(***************************************************************************)
(* The geometry kernel and the post-processor as functions: an argument is *)
(* drawn, the function is applied to it, and where a property speaks of a  *)
(* second application the function is applied to what it returned.         *)
(***************************************************************************)
MaxObjects == 4          \* objects in one list

\* Boxes of one object reported three times, each shifted against the one
\* before, a box that nearly covers the first, and one far from them.
BoxFirst == << 0, 0, 100, 100 >>
BoxShifted == << 0, 5, 100, 105 >>
BoxShiftedTwice == << 0, 10, 100, 110 >>
BoxNearlyFirst == << 0, 0, 100, 96 >>
BoxFar == << 500, 500, 600, 700 >>

Stored(label, type, box, aliases) ==
  [label |-> label, type |-> type, box_2d |-> box, aliases |-> aliases]

\* StoredObject: the objects the lists are made of
StoredObjects ==
  { Stored("hound", "animal", BoxFirst, {}),
    Stored("dog", "animal", BoxShifted, {}),
    Stored("hound", "animal", BoxShiftedTwice, {}),
    Stored("hunter", "person", BoxNearlyFirst, {}),
    Stored("shape", "other", BoxShifted, {}),
    Stored("", "animal", BoxShifted, {}),
    Stored("stag", "Animal", BoxFar, {"deer"}) }

\* The sequences over S of length at most n.
SeqsUpTo(S, n) == UNION { [1..m -> S] : m \in 0..n }

DedupeArguments == { [fn |-> "dedupe", arg |-> L] : L \in SeqsUpTo(StoredObjects, MaxObjects) }

\* dedupeObjectsByGeometry(objects)
Dedupe ==
  /\ kernelOp = "none"
  /\ kernelIn.fn = "dedupe"
  /\ kernelOp' = "deduped"
  /\ kernelOut' = dedupeObjectsByGeometry(kernelIn.arg)
  /\ UNCHANGED << kernelIn, poolVars, usageVars, detectorVars, runVars, tilerVars,
                  discoveryVars >>

\* dedupeObjectsByGeometry of what it returned
DedupeAgain ==
  /\ kernelOp = "deduped"
  /\ kernelOp' = "dedupedAgain"
  /\ kernelIn' = [fn |-> "dedupe", arg |-> kernelOut]
  /\ kernelOut' = dedupeObjectsByGeometry(kernelOut)
  /\ UNCHANGED << poolVars, usageVars, detectorVars, runVars, tilerVars, discoveryVars >>

(***************************************************************************)
(* What the properties of the dedup speak of.                              *)
(***************************************************************************)
\* The index in the result of the instance the k-th object of the list was
\* merged into, 0 if the k-th object was kept.
MergedInto(objects, k) ==
  MatchIndex(objects[k], dedupeObjectsByGeometry(SubSeq(objects, 1, k - 1)))

\* The k-th object of the list was merged into an instance although their
\* categories differ.
CrossCategoryMerge(objects, k, survivor) ==
  /\ MergedInto(objects, k) # 0
  /\ survivor = kernelOut[MergedInto(objects, k)]
  /\ normalizeType(objects[k].type) # normalizeType(survivor.type)

\* iou >= 0.92 and areaRatio >= 0.80
StricterBar(a, b) ==
  \E sim \in {boxSimilarity(normalizeBox(a.box_2d), normalizeBox(b.box_2d))} :
    /\ AtLeast(sim.iouNum, sim.iouDen, 92)
    /\ AtLeast(sim.ratioNum, sim.ratioDen, 80)

(***************************************************************************)
(* C24.  Dedup is idempotent: the dedup of what a dedup returned returns   *)
(* it unchanged, the same instances in the same order with the same        *)
(* aliases.                                                                *)
(***************************************************************************)
C24_DedupIdempotent ==
  kernelOp = "dedupedAgain" => kernelOut = kernelIn.arg

\* The second dedup of a list whose first dedup merged instances and gave
\* an alias.
C24_Witness ==
  /\ kernelOp = "dedupedAgain"
  /\ Len(kernelOut) >= 2
  /\ \E i \in 1..Len(kernelOut) : "dog" \in kernelOut[i].aliases


\* The label of the k-th object is empty, or the label of the instance it
\* was merged into, or one of that instance's aliases.
LabelKept(objects, k) ==
  \E survivor \in {kernelOut[MergedInto(objects, k)]} :
    \/ objects[k].label = ""
    \/ objects[k].label = survivor.label
    \/ objects[k].label \in survivor.aliases

\* Every object of the list after the first is a report of the first.
ReportsOfOne(objects) ==
  /\ Len(objects) = MaxObjects
  /\ \A k \in 2..Len(objects) : MergedInto(objects, k) = 1

(***************************************************************************)
(* C25.  As the claim states it: when two instances are merged, the label  *)
(* of the merged-away one is among the aliases of the survivor.            *)
(***************************************************************************)
C25_MergedLabelIsAlias ==
  kernelOp = "deduped" =>
    \A k \in 1..Len(kernelIn.arg) :
      MergedInto(kernelIn.arg, k) # 0 =>
        kernelIn.arg[k].label \in kernelOut[MergedInto(kernelIn.arg, k)].aliases

(***************************************************************************)
(* C25, amended.  When two instances are merged, the label of the          *)
(* merged-away one, unless it is empty or the label of the survivor, is    *)
(* among the aliases of the survivor; the reports of one object merge into *)
(* exactly one instance, which has the label of the first report and       *)
(* carries every other non-empty label of the reports as an alias.         *)
(***************************************************************************)
C25_MergedLabelIsKept ==
  kernelOp = "deduped" =>
    /\ \A k \in 1..Len(kernelIn.arg) :
         MergedInto(kernelIn.arg, k) # 0 => LabelKept(kernelIn.arg, k)
    /\ ReportsOfOne(kernelIn.arg) =>
         /\ Len(kernelOut) = 1
         /\ kernelOut[1].label = kernelIn.arg[1].label
         /\ \A k \in 2..Len(kernelIn.arg) :
              kernelIn.arg[k].label \notin {"", kernelOut[1].label} =>
                kernelIn.arg[k].label \in kernelOut[1].aliases

\* Four reports of one object, one under another label, merged into one
\* instance that carries the other label as an alias.
C25_Witness ==
  /\ kernelOp = "deduped"
  /\ ReportsOfOne(kernelIn.arg)
  /\ Len(kernelOut) = 1
  /\ kernelOut[1].label = "hound"
  /\ kernelOut[1].aliases = {"dog"}

(***************************************************************************)
(* C26.  As the claim states it: two instances of differing categories are *)
(* merged only if iou >= 0.92 and areaRatio >= 0.80, whatever the two      *)
(* categories are.                                                         *)
(***************************************************************************)
C26_CrossCategoryStricter ==
  kernelOp = "deduped" =>
    \A k \in 1..Len(kernelIn.arg) :
      \A survivor \in {kernelOut[i] : i \in 1..Len(kernelOut)} :
        CrossCategoryMerge(kernelIn.arg, k, survivor) =>
          StricterBar(kernelIn.arg[k], survivor)

(***************************************************************************)
(* C26, amended.  Two instances of differing categories, neither of them   *)
(* the category 'other', are merged only if iou >= 0.92 and areaRatio >=   *)
(* 0.80.                                                                   *)
(***************************************************************************)
C26_CrossCategoryStricterUnlessOther ==
  kernelOp = "deduped" =>
    \A k \in 1..Len(kernelIn.arg) :
      \A survivor \in {kernelOut[i] : i \in 1..Len(kernelOut)} :
        /\ CrossCategoryMerge(kernelIn.arg, k, survivor)
        /\ normalizeType(kernelIn.arg[k].type) # "other"
        /\ normalizeType(survivor.type) # "other"
        => StricterBar(kernelIn.arg[k], survivor)

\* A person merged into an animal at the stricter bar, and a second animal
\* merged into it at the ordinary one.
C26_Witness ==
  /\ kernelOp = "deduped"
  /\ Len(kernelIn.arg) = 3
  /\ kernelIn.arg[1].type = "animal" /\ kernelIn.arg[2].type = "person"
  /\ MergedInto(kernelIn.arg, 2) = 1
  /\ kernelIn.arg[3].type = "animal" /\ kernelIn.arg[3].box_2d = BoxShifted
  /\ Len(kernelOut) = 1

(***************************************************************************)
(* Importance scoring and ranking.  A score is an integer in units of      *)
(* 1/ScoreUnit; square roots are taken to the thousandth and logarithms    *)
(* from a table of ln 1 .. ln 7 in ten-thousandths.                        *)
(***************************************************************************)
ScoreUnit == 200000

\* Objects of one family around the centre with areas 0.01, 0.50 and 0.10,
\* a second report of the first under a numbered label, and two objects of
\* other categories away from the centre.
RankedObjects ==
  { Stored("hound", "animal", << 450, 450, 550, 550 >>, {}),
    Stored("hound", "animal", << 146, 146, 854, 854 >>, {}),
    Stored("hound", "animal", << 342, 342, 658, 658 >>, {}),
    Stored("hound 2", "animal", << 450, 450, 550, 550 >>, {}),
    Stored("hunter", "person", << 0, 0, 100, 101 >>, {}),
    Stored("stag", "Animal", << 450, 800, 550, 900 >>, {"deer"}) }

RankArguments == { [fn |-> "rank", arg |-> L] : L \in SeqsUpTo(RankedObjects, MaxObjects) }

\* Math.sqrt of n, rounded down, found between lo and hi.
RECURSIVE SqrtBetween(_, _, _)
SqrtBetween(n, lo, hi) ==
  IF lo >= hi THEN lo
  ELSE LET mid == (lo + hi + 1) \div 2
       IN IF mid * mid <= n THEN SqrtBetween(n, mid, hi) ELSE SqrtBetween(n, lo, mid - 1)

Sqrt(n) == SqrtBetween(n, 0, 1000)

\* Math.log of 1 .. 7 in ten-thousandths
Ln == << 0, 6931, 10986, 13863, 16094, 17918, 19459 >>

\* getLabelFamily: lower case, a trailing number stripped
getLabelFamily(label) ==
  IF label \in {"hound 2", "hound #2"} THEN "hound" ELSE ToLowerCase(label)

\* typeCounts.get(typeKey) || total
TypeCount(objects, obj) ==
  Cardinality({i \in 1..Len(objects) : normalizeType(objects[i].type) = normalizeType(obj.type)})

\* familyCounts.get(familyKey) || total
FamilyCount(objects, obj) ==
  Cardinality({i \in 1..Len(objects) : getLabelFamily(objects[i].label) = getLabelFamily(obj.label)})

\* clamp(Math.log((total + 1) / (count + 1)) / maxLog, 0, 1), in thousandths
Rarity(total, count) ==
  clamp(((Ln[total + 1] - Ln[count + 1]) * 1000) \div Ln[total + 1], 0, 1000)

\* computeImportanceGeom: the score of one object of the list
ScoreOf(objects, obj) ==
  LET box == normalizeBox(obj.box_2d)
      w == Max(0, box[3] - box[1])
      h == Max(0, box[4] - box[2])
      areaScore == Sqrt(clamp(w * h, 0, 1000000))
      dx2 == box[1] + box[3] - 1000
      dy2 == box[2] + box[4] - 1000
      centrality == clamp(1000 - Sqrt((dx2 * dx2 + dy2 * dy2) \div 2), 0, 1000)
      foreground2 == clamp(box[2] + box[4], 0, 2000)
      rarityType == Rarity(Len(objects), TypeCount(objects, obj))
      rarityFamily == Rarity(Len(objects), FamilyCount(objects, obj))
  IN clamp(60 * areaScore + 50 * centrality + 15 * foreground2
             + 40 * rarityFamily + 20 * rarityType, 0, ScoreUnit)

Scores(objects) == [i \in 1..Len(objects) |-> ScoreOf(objects, objects[i])]

\* Variant: an entry goes before the entries of the same score.
InsertBeforeEqual(ranking, entry) ==
  LET n == Cardinality({p \in 1..Len(ranking) : ranking[p].score > entry.score})
  IN SubSeq(ranking, 1, n) \o << entry >> \o SubSeq(ranking, n + 1, Len(ranking))

\* Array.prototype.sort with (a, b) => b.score - a.score, one entry at a
\* time: the sort is stable, an entry goes behind the entries of the same
\* score that came before it.
InsertByScore(ranking, entry) ==
  LET n == Cardinality({p \in 1..Len(ranking) : ranking[p].score >= entry.score})
  IN SubSeq(ranking, 1, n) \o << entry >> \o SubSeq(ranking, n + 1, Len(ranking))

RECURSIVE SortFrom(_, _, _)
SortFrom(scores, k, ranking) ==
  IF k > Len(scores) THEN ranking
  ELSE SortFrom(scores, k + 1, InsertByScore(ranking, [score |-> scores[k], index |-> k]))

Ranking(scores) == SortFrom(scores, 1, << >>)

\* rankByIndex.get(index)
RankByIndex(ranking, index) == CHOOSE rank \in 1..Len(ranking) : ranking[rank].index = index

\* Number(score.toFixed(4)), in ten-thousandths
ToFixed4(score) == Round(score, ScoreUnit \div 10000)

computeImportanceGeom(objects) ==
  LET scores == Scores(objects)
      ranking == Ranking(scores)
  IN  [i \in 1..Len(objects) |->
         [label |-> objects[i].label, type |-> objects[i].type,
          box_2d |-> objects[i].box_2d, aliases |-> objects[i].aliases,
          importance |-> ToFixed4(scores[i]),
          importance_rank |-> RankByIndex(ranking, i)]]

\* computeImportanceGeom(objects)
Rank ==
  /\ kernelOp = "none"
  /\ kernelIn.fn = "rank"
  /\ kernelOp' = "ranked"
  /\ kernelOut' = computeImportanceGeom(kernelIn.arg)
  /\ UNCHANGED << kernelIn, poolVars, usageVars, detectorVars, runVars, tilerVars,
                  discoveryVars >>

\* The tiles of the adaptive tiler down to a depth: the root and the
\* quadrants of the tiles one level up.
RECURSIVE TilesTo(_)
TilesTo(depth) ==
  IF depth = 0 THEN {rootTile(Image.width, Image.height)}
  ELSE TilesTo(depth - 1) \cup
       UNION { SeqRange(subdivideIntoQuadrants(t, Image.width, Image.height)) :
                 t \in TilesTo(depth - 1) }

\* The contexts of the recursive detector down to a depth.
RECURSIVE ContextsTo(_)
ContextsTo(depth) ==
  IF depth = 0 THEN {rootCtx}
  ELSE ContextsTo(depth - 1) \cup
       UNION { SeqRange(ChildContexts(ctx)) : ctx \in ContextsTo(depth - 1) }

\* Coordinates of boxes in the normalized space of a region.
LocalCoordinates == {0, 1, 2, 3, 333, 500, 999, 1000}

LocalBoxes ==
  { << a, a, b, b >> : a \in LocalCoordinates, b \in LocalCoordinates } \cap
  { box \in Seq(0..1000) : Len(box) = 4 /\ box[1] <= box[3] }

MapArguments ==
  { [fn |-> "mapTile", arg |-> [box |-> box, region |-> t, image |-> Image]] :
      box \in LocalBoxes, t \in TilesTo(MaxDepth) }
  \cup
  { [fn |-> "localToGlobal",
     arg |-> [box |-> box, region |-> ctx.rect, image |-> RecursiveImage]] :
      box \in LocalBoxes, ctx \in ContextsTo(MaxDepth) }

\* mapTileBoxToFullImage(tileBox, tile, imageWidth, imageHeight)
MapTileBox ==
  /\ kernelOp = "none"
  /\ kernelIn.fn = "mapTile"
  /\ kernelOp' = "mapped"
  /\ kernelOut' = mapTileBoxToFullImage(kernelIn.arg.box, kernelIn.arg.region,
                                        kernelIn.arg.image.width, kernelIn.arg.image.height)
  /\ UNCHANGED << kernelIn, poolVars, usageVars, detectorVars, runVars, tilerVars,
                  discoveryVars >>

\* this.localToGlobalBox(obj.box_2d, rect, globalImageSize)
LocalToGlobal ==
  /\ kernelOp = "none"
  /\ kernelIn.fn = "localToGlobal"
  /\ kernelOp' = "mapped"
  /\ kernelOut' = localToGlobalBox(kernelIn.arg.box, kernelIn.arg.region, kernelIn.arg.image)
  /\ UNCHANGED << kernelIn, poolVars, usageVars, detectorVars, runVars, tilerVars,
                  discoveryVars >>

(***************************************************************************)
(* normalizeBox of four numbers that need not be integers: a number is     *)
(* given in tenths.                                                        *)
(***************************************************************************)
\* Math.round of a number of tenths: halves go up.
MathRound(tenths) == (tenths + 5) \div 10

\* An integer as a number of tenths.
Tenths(n) == n * 10

RawCoordinates == {-15, -5, 4, 5, 3334, 9996, 10004, 12000}

RawBoxes == [1..4 -> RawCoordinates]

NormalizeArguments == { [fn |-> "normalize", arg |-> raw] : raw \in RawBoxes }

\* normalizeBox: clamp(Math.round(box[i] ?? 0), 0, 1000), then put in order
normalizeRawBox(raw) == normalizeBox([i \in 1..4 |-> MathRound(raw[i])])

\* normalizeBox(box)
Normalize ==
  /\ kernelOp = "none"
  /\ kernelIn.fn = "normalize"
  /\ kernelOp' = "normalized"
  /\ kernelOut' = normalizeRawBox(kernelIn.arg)
  /\ UNCHANGED << kernelIn, poolVars, usageVars, detectorVars, runVars, tilerVars,
                  discoveryVars >>

\* normalizeBox of what it returned
NormalizeAgain ==
  /\ kernelOp = "normalized"
  /\ kernelOp' = "normalizedAgain"
  /\ kernelIn' = [fn |-> "normalize", arg |-> [i \in 1..4 |-> Tenths(kernelOut[i])]]
  /\ kernelOut' = normalizeRawBox([i \in 1..4 |-> Tenths(kernelOut[i])])
  /\ UNCHANGED << poolVars, usageVars, detectorVars, runVars, tilerVars, discoveryVars >>

KernelArguments ==
  DedupeArguments \cup RankArguments \cup MapArguments \cup NormalizeArguments

KernelInit ==
  /\ kernelOp = "none"
  /\ kernelIn \in KernelArguments
  /\ kernelOut = << >>
  /\ PoolUnused
  /\ DetectorAtRest
  /\ RunAtRest
  /\ TilerAtRest
  /\ DiscoveryAtRest

KernelNext ==
  \/ Dedupe
  \/ DedupeAgain
  \/ Rank
  \/ MapTileBox
  \/ LocalToGlobal
  \/ Normalize
  \/ NormalizeAgain

KernelSpec == KernelInit /\ [][KernelNext]_vars

(***************************************************************************)
(* C27.  Ranks follow descending score, ties broken by input order: for    *)
(* any two instances a and b of one list, rank(a) < rank(b) exactly when   *)
(* score(a) > score(b), or the scores are equal and a comes before b.  The *)
(* scores reported with the ranks, rounded to four decimals, never         *)
(* increase along the ranks, and the ranks are 1 .. n.                     *)
(***************************************************************************)
C27_RankFollowsScore ==
  kernelOp = "ranked" =>
    \E scores \in {Scores(kernelIn.arg)} :
      /\ \A a, b \in 1..Len(kernelOut) :
           kernelOut[a].importance_rank < kernelOut[b].importance_rank
             <=> \/ scores[a] > scores[b]
                 \/ scores[a] = scores[b] /\ a < b
      /\ \A a, b \in 1..Len(kernelOut) :
           kernelOut[a].importance_rank < kernelOut[b].importance_rank
             => kernelOut[a].importance >= kernelOut[b].importance
      /\ {kernelOut[a].importance_rank : a \in 1..Len(kernelOut)} = 1..Len(kernelOut)

\* The instances of areas 0.01, 0.50 and 0.10, all else equal, ranked 3, 1
\* and 2, and behind them a second report of the first with the same score.
C27_Witness ==
  /\ kernelOp = "ranked"
  /\ Len(kernelOut) = 4
  /\ kernelIn.arg[1].box_2d = << 450, 450, 550, 550 >>
  /\ kernelIn.arg[2].box_2d = << 146, 146, 854, 854 >>
  /\ kernelIn.arg[3].box_2d = << 342, 342, 658, 658 >>
  /\ kernelIn.arg[4] = Stored("hound 2", "animal", << 450, 450, 550, 550 >>, {})
  /\ kernelOut[1].importance_rank = 3
  /\ kernelOut[2].importance_rank = 1
  /\ kernelOut[3].importance_rank = 2
  /\ kernelOut[4].importance_rank = 4
  /\ kernelOut[4].importance = kernelOut[1].importance

(***************************************************************************)
(* What the property of the mapping speaks of.  The inverse transform      *)
(* takes the global coordinate g to (g / 1000 * full - offset) / size *    *)
(* 1000; it differs from the local coordinate x by at most 1 exactly when  *)
(* |g * full - 1000 * offset - x * size| <= size.                          *)
(***************************************************************************)
Abs(n) == IF n < 0 THEN 0 - n ELSE n

RecoveredWithinOne(x, g, offset, size, full) ==
  Abs(g * full - 1000 * offset - x * size) <= size

BoxRecoveredWithinOne(box, global, region, image) ==
  /\ RecoveredWithinOne(box[1], global[1], region.left, region.width, image.width)
  /\ RecoveredWithinOne(box[2], global[2], region.top, region.height, image.height)
  /\ RecoveredWithinOne(box[3], global[3], region.left, region.width, image.width)
  /\ RecoveredWithinOne(box[4], global[4], region.top, region.height, image.height)

\* The region lies within the image: no coordinate of it is clamped.
NotClamped(region, image) ==
  /\ region.left >= 0 /\ region.left + region.width <= image.width
  /\ region.top >= 0 /\ region.top + region.height <= image.height

\* The region spans more than half of the image in each dimension.
SpansHalf(region, image) ==
  /\ 2 * region.width > image.width
  /\ 2 * region.height > image.height

(***************************************************************************)
(* C28.  As the claim states it: for every region that is not clamped at   *)
(* the image boundary and every box in its normalized space, the box       *)
(* mapped to global coordinates and back with the inverse transform        *)
(* differs from the box by at most 1 in each coordinate.                   *)
(***************************************************************************)
C28_RoundTripWithinOne ==
  kernelOp = "mapped" /\ NotClamped(kernelIn.arg.region, kernelIn.arg.image) =>
    BoxRecoveredWithinOne(kernelIn.arg.box, kernelOut, kernelIn.arg.region, kernelIn.arg.image)

(***************************************************************************)
(* C28, amended.  The same for every region that is not clamped at the     *)
(* image boundary and spans more than half of the image in width and in    *)
(* height.                                                                 *)
(***************************************************************************)
C28_RoundTripWithinOneOfLargeRegion ==
  /\ kernelOp = "mapped"
  /\ NotClamped(kernelIn.arg.region, kernelIn.arg.image)
  /\ SpansHalf(kernelIn.arg.region, kernelIn.arg.image)
  => BoxRecoveredWithinOne(kernelIn.arg.box, kernelOut, kernelIn.arg.region, kernelIn.arg.image)

\* A box of a quadrant of the image, away from its corner, mapped to other
\* coordinates of the image and recovered within 1.
C28_Witness ==
  /\ kernelOp = "mapped"
  /\ kernelIn.arg.region.left > 0
  /\ kernelIn.arg.region.width < kernelIn.arg.image.width
  /\ SpansHalf(kernelIn.arg.region, kernelIn.arg.image)
  /\ kernelIn.arg.box = << 333, 333, 999, 999 >>
  /\ kernelOut # kernelIn.arg.box
  /\ RecoveredWithinOne(333, kernelOut[1], kernelIn.arg.region.left,
                        kernelIn.arg.region.width, kernelIn.arg.image.width)

(***************************************************************************)
(* C29.  For every input of four numbers normalizeBox returns a box whose  *)
(* four coordinates are integers in [0,1000] with xmin <= xmax and ymin <= *)
(* ymax, and normalizeBox of that box returns it unchanged.                *)
(***************************************************************************)
C29_NormalizeBoxInRangeOrderedIdempotent ==
  /\ kernelOp \in {"normalized", "normalizedAgain"} =>
       /\ \A i \in 1..4 : kernelOut[i] \in 0..1000
       /\ kernelOut[1] <= kernelOut[3]
       /\ kernelOut[2] <= kernelOut[4]
  /\ kernelOp = "normalizedAgain" =>
       \A i \in 1..4 : Tenths(kernelOut[i]) = kernelIn.arg[i]

\* normalizeBox applied a second time to the box it made of numbers that
\* were out of range, out of order and not integers.
C29_Witness ==
  /\ kernelOp = "normalizedAgain"
  /\ kernelOut = << 0, 333, 1000, 1000 >>


(***************************************************************************)
(* The pool under fairness.  Every continuation that can run does run:     *)
(* the event loop runs its microtasks and its due timers, every inference  *)
(* call returns (with an answer or an error), and the clock reaches the    *)
(* next timer.  Nothing obliges a caller to submit a task.  Errors stop    *)
(* after MaxFaults of them.                                                *)
(***************************************************************************)
\* The inference call of task t returns.
CallReturns(t) == CallSucceeds(t) \/ \E s \in ErrorShapes : CallFails(t, s)

\* A step of the event loop other than a submission or a bare tick of the
\* clock.
EventLoopStep ==
  \/ \E t \in Tasks : EnqueueResume(t) \/ CallReturns(t) \/ RetryResume(t) \/ Settle(t)
  \/ NextTimer

PoolFairness == WF_vars(EventLoopStep)

\* The configurations under which tasks queue behind a backoff window.
FairConfigs == { << 2, 1, DefaultBaseDelayMs >>, << 1, 2, DefaultBaseDelayMs >> }

PoolFairInit == Init /\ config \in FairConfigs

PoolFairSpec == PoolFairInit /\ [][Next]_vars /\ PoolFairness

(***************************************************************************)
(* C30.  Every task placed in the queue eventually starts running,         *)
(* provided every inference call eventually returns and rate-limit errors  *)
(* eventually stop, also when the completions that freed capacity happened *)
(* inside a backoff window and no submission arrives afterwards.           *)
(***************************************************************************)
C30_QueuedEventuallyStarts ==
  \A t \in Tasks : (pc[t] = "queued") ~> (pc[t] \in Running)

\* A task waits in the queue although capacity is free: a completion inside
\* a backoff window has left it there, and no submission is under way.
C30_Witness ==
  /\ queue # << >>
  /\ inFlight < maxConcurrency
  /\ now < globalBackoffUntil
  /\ \A t \in Tasks : pc[t] \notin {"idle", "enqWait"}


(***************************************************************************)
(* More steps of the pool the properties below speak of.                   *)
(***************************************************************************)
\* Task t, already running, issues its next inference call in this step.
Retries(t) == pc[t] \in {"backoffWait", "retrySleep"} /\ pc'[t] = "calling"

\* A task submitted in this behaviour starts running without having been
\* in the queue.
StartsAtSubmission(t) == pc[t] = "enqWait" /\ pc'[t] = "calling"

(***************************************************************************)
(* C31.  While a backoff window is active no running task issues a retry   *)
(* call: neither the retry after a rate-limit error nor the retry of a     *)
(* transient error whose own delay ends before the global deadline.        *)
(***************************************************************************)
C31_NoRetryCallInsideWindow ==
  [][\A t \in Tasks : Retries(t) => ~BackoffActive]_vars

(***************************************************************************)
(* C32.  No capacity stays idle while tasks wait: whenever no backoff      *)
(* window is active and the queue is not empty, the in-flight count equals *)
(* the concurrency limit.                                                  *)
(***************************************************************************)
C32_NoIdleCapacityWhileQueued ==
  (~BackoffActive /\ queue # << >>) => inFlight = maxConcurrency

(***************************************************************************)
(* C33.  A newly submitted task never starts running while a task          *)
(* submitted earlier still waits in the queue.                             *)
(***************************************************************************)
C33_NoStartPastTheQueue ==
  [][\A t \in Tasks : StartsAtSubmission(t) => queue = << >>]_vars


(***************************************************************************)
(* A session of one pool: a caller whose call has settled submits its next *)
(* call (a region's verification after its detection).                     *)
(***************************************************************************)
SessionConfigs == { << 2, 1, DefaultBaseDelayMs >> }

\* No call is resubmitted once the queue has given out MaxTickets turns.
MaxTickets == 2

SessionInit == Constructed(SessionConfigs)

\* generateObject(options) by the caller of the settled task t: enqueue up
\* to its await of waitForBackoff, while no other submission is under way.
Resubmit(t) ==
  /\ pc[t] \in Finished
  /\ \A u \in Tasks : pc[u] \notin {"idle", "enqWait"}
  /\ NextTicket <= MaxTickets
  /\ pc' = [pc EXCEPT ![t] = "enqWait"]
  /\ wake' = [wake EXCEPT ![t] = WaitForBackoffWake(now, globalBackoffUntil)]
  /\ UNCHANGED << beyondPool, config, inFlight, queue, globalBackoffUntil,
                  consecutiveRateLimits, now, attempt, lastError, outcome,
                  nRateLimited, nTransient, lastAnswer, ticket, faults >>

SessionNext ==
  \/ \E t \in Tasks : Submit(t)
  \/ \E t \in Tasks : Resubmit(t)
  \/ \E t \in Tasks : EnqueueResume(t)
  \/ \E t \in Tasks : CallSucceeds(t)
  \/ \E t \in Tasks : \E s \in ErrorShapes : CallFails(t, s)
  \/ \E t \in Tasks : RetryResume(t)
  \/ \E t \in Tasks : Settle(t)
  \/ Tick
  \/ NextTimer

SessionSpec == SessionInit /\ [][SessionNext]_vars

(***************************************************************************)
(* A streak of rate limits: three calls in flight with a retry each, and   *)
(* StreakFaults failing calls, so that the counter of consecutive rate     *)
(* limits can reach two, be reset by a success, and count again.           *)
(***************************************************************************)
StreakFaults == 3

StreakConfigs == { << 3, 2, DefaultBaseDelayMs >> }

StreakInit == Constructed(StreakConfigs)

StreakCallFails(t, s) == faults < StreakFaults /\ CallThrows(t, s)

StreakNext ==
  \/ \E t \in Tasks : Submit(t)
  \/ \E t \in Tasks : EnqueueResume(t)
  \/ \E t \in Tasks : CallSucceeds(t)
  \/ \E t \in Tasks : \E s \in ErrorShapes : StreakCallFails(t, s)
  \/ \E t \in Tasks : RetryResume(t)
  \/ \E t \in Tasks : Settle(t)
  \/ Tick
  \/ NextTimer

StreakSpec == StreakInit /\ [][StreakNext]_vars

(***************************************************************************)
(* C34: no update of the in-flight counter is lost.  In every state the    *)
(* counter equals the number of tasks that have started and not yet        *)
(* completed; it is never negative, and it is 0 when no task is running.   *)
(***************************************************************************)
C34_InFlightCountsRunningTasks ==
  /\ inFlight = Cardinality({ t \in Tasks : pc[t] \in Running })
  /\ inFlight >= 0
  /\ (\A t \in Tasks : pc[t] \notin Running) => inFlight = 0

\* Starts and completions have interleaved: one task has completed, one
\* sleeps in the middle of its retries and another is in its call.
C34_Witness ==
  /\ \E t \in Tasks : pc[t] \in Finished
  /\ \E t \in Tasks : pc[t] \in {"backoffWait", "retrySleep"}
  /\ \E t \in Tasks : pc[t] = "calling"
  /\ inFlight = 2

(***************************************************************************)
(* C35: the global backoff deadline never moves earlier: no step lowers    *)
(* globalBackoffUntil, also when the success of another task has reset the *)
(* counter of consecutive rate limits in between.                          *)
(***************************************************************************)
C35_DeadlineNeverMovesEarlier ==
  [][globalBackoffUntil' >= globalBackoffUntil]_vars

(***************************************************************************)
(* RecursiveDetector.detectWithVerification: one detect call for the kinds *)
(* of a node, then a verification loop for each group of instances with    *)
(* the same label and type, one group after the other.  The detector's     *)
(* variables are those of detectAndVerifyRegion; maxVerifyRounds stands    *)
(* for config.verifyRounds, instances for the local verified.              *)
(***************************************************************************)
\* kinds, as processNode passes them
NodeKinds == << [label |-> "hound", type |-> "animal"],
                [label |-> "stag", type |-> "game"] >>

Labelled(name, box) == [label |-> name, box_2d |-> box]

\* DetectionSchema responses
NodeDetectResponses ==
  { << >>,
    << Labelled("hound", BoxAt(0)) >>,
    << Labelled("hound", BoxAt(0)), Labelled("stag", BoxAt(2)), Labelled("hound", BoxNearFirst) >>,
    << Labelled("Hound", BoxXSwapped), Labelled("fox", BoxAt(1)) >> }

\* detect: kinds.find(k => k.label.toLowerCase() === obj.label.toLowerCase()) || kinds[0]
MatchingKind(kinds, name) ==
  LET hits == { k \in 1..Len(kinds) : ToLowerCase(kinds[k].label) = ToLowerCase(name) }
  IN IF hits = {} THEN kinds[1]
     ELSE kinds[CHOOSE k \in hits : \A j \in hits : k <= j]

\* detect: result.objects.map(...)
DetectedOfKinds(objects, kinds) ==
  [k \in 1..Len(objects) |->
     [label |-> objects[k].label,
      type |-> MatchingKind(kinds, objects[k].label).type,
      box_2d |-> normalizeBox(objects[k].box_2d),
      aliases |-> {}]]

GroupKey(inst) == << inst.label, inst.type >>

\* The keys of kindGroups in the order of their insertion.
RECURSIVE GroupKeysFrom(_, _, _)
GroupKeysFrom(insts, k, keys) ==
  IF k > Len(insts) THEN keys
  ELSE IF \E j \in 1..Len(keys) : keys[j] = GroupKey(insts[k])
    THEN GroupKeysFrom(insts, k + 1, keys)
  ELSE GroupKeysFrom(insts, k + 1, Append(keys, GroupKey(insts[k])))

\* for (const inst of instances) kindGroups.get(key).push(inst)
GroupsOf(insts) ==
  LET keys == GroupKeysFrom(insts, 1, << >>)
      Of(key, k) ==
        LET F[n \in 0..Len(insts)] ==
              IF n = 0 THEN << >>
              ELSE IF GroupKey(insts[n]) = key THEN Append(F[n - 1], insts[n])
              ELSE F[n - 1]
        IN F[k]
  IN [i \in 1..Len(keys) |-> Of(keys[i], Len(insts))]

\* for (...; round < verifyRounds; ...) { if (verified.length === 0) break
GroupLoopContinues(rnd, verified) == LoopCondition(rnd) /\ Len(verified) # 0

\* const [label, type] = key.split('|')
KindOfGroup(group) == [kind |-> group[1].label, type |-> group[1].type]

\* The loop of the current group has ended with verified:
\* allVerified.push(...verified), then the next group, whose loop begins
\* with its verification image, or return allVerified.
GroupEnds(r, verified, how) ==
  LET all == allVerified[r] \o verified
  IN /\ allVerified' = [allVerified EXCEPT ![r] = all]
     /\ IF kindGroups[r] = << >>
          THEN /\ Returns(r, all, how)
               /\ instances' = [instances EXCEPT ![r] = verified]
               /\ UNCHANGED << kindGroups, round, overlay >>
          ELSE /\ kindGroups' = [kindGroups EXCEPT ![r] = Tail(@)]
               /\ instances' = [instances EXCEPT ![r] = Head(kindGroups[r])]
               /\ round' = [round EXCEPT ![r] = 0]
               /\ overlay' = [overlay EXCEPT ![r] = Head(kindGroups[r])]
               /\ rpc' = [rpc EXCEPT ![r] = "building"]
               /\ UNCHANGED << result, exit >>

\* The detect call returns objects.
NodeDetectReturns(r, objects) ==
  /\ rpc[r] = "detecting"
  /\ LET found == DetectedOfKinds(objects, NodeKinds)
         groups == GroupsOf(found)
     IN IF SkipVerification(found)
          THEN /\ Returns(r, found, "unverified")
               /\ instances' = [instances EXCEPT ![r] = found]
               /\ UNCHANGED << overlay, kindGroups >>
          ELSE /\ kindGroups' = [kindGroups EXCEPT ![r] = Tail(groups)]
               /\ instances' = [instances EXCEPT ![r] = Head(groups)]
               /\ overlay' = [overlay EXCEPT ![r] = Head(groups)]
               /\ rpc' = [rpc EXCEPT ![r] = "building"]
               /\ UNCHANGED << result, exit >>
  /\ round' = [round EXCEPT ![r] = 0]
  /\ UNCHANGED << maxVerifyRounds, allVerified, verifyCalls, before, verification,
                  afterApply, beyondDetector >>

\* The verify call of the current group returns v: the rest of the loop
\* body and, unless the loop ends, the top of the next round.
GroupVerifyReturns(r, v) ==
  /\ rpc[r] = "verifying"
  /\ LET applied == ApplyVerification(instances[r], v, KindOfGroup(before[r]))
         nextRound == round[r] + 1
         verified == applied.instances
     IN /\ verification' = [verification EXCEPT ![r] = v]
        /\ afterApply' = [afterApply EXCEPT ![r] = applied.instances]
        /\ IF ~applied.changed
             THEN GroupEnds(r, applied.instances, "stable")
           ELSE IF v.complete
             THEN GroupEnds(r, applied.instances, "complete")
           ELSE IF GroupLoopContinues(nextRound, verified)
             THEN /\ instances' = [instances EXCEPT ![r] = verified]
                  /\ round' = [round EXCEPT ![r] = nextRound]
                  /\ rpc' = [rpc EXCEPT ![r] = "building"]
                  /\ overlay' = [overlay EXCEPT ![r] = verified]
                  /\ UNCHANGED << result, exit, kindGroups, allVerified >>
           ELSE GroupEnds(r, verified, "maxRounds")
  /\ UNCHANGED << maxVerifyRounds, verifyCalls, before, beyondDetector >>

\* The verification image of the current group is ready: the verify call
\* is issued for the instances drawn on it.
GroupBuildReturns(r) ==
  /\ rpc[r] = "building"
  /\ rpc' = [rpc EXCEPT ![r] = "verifying"]
  /\ verifyCalls' = [verifyCalls EXCEPT ![r] = @ + 1]
  /\ before' = [before EXCEPT ![r] = instances[r]]
  /\ UNCHANGED << maxVerifyRounds, kindGroups, allVerified, instances, round,
                  overlay, result, exit, verification, afterApply, beyondDetector >>

\* The verify call fails: break.
GroupVerifyFails(r) ==
  /\ rpc[r] = "verifying"
  /\ GroupEnds(r, instances[r], "verifyFailed")
  /\ UNCHANGED << maxVerifyRounds, verifyCalls, before, verification,
                  afterApply, beyondDetector >>

NodeInit ==
  /\ maxVerifyRounds \in 0..MaxVerifyRounds
  /\ RegionsStarted({1})
  /\ PoolUnused
  /\ RunAtRest
  /\ TilerAtRest
  /\ DiscoveryAtRest
  /\ KernelAtRest

NodeNext ==
  \/ \E objects \in NodeDetectResponses : NodeDetectReturns(1, objects)
  \/ DetectFails(1)
  \/ GroupBuildReturns(1)
  \/ \E v \in VerifyResponses : GroupVerifyReturns(1, v)
  \/ GroupVerifyFails(1)

NodeSpec == NodeInit /\ [][NodeNext]_vars

\* The last verify response of r added an instance or corrected one, read
\* off the response and the instances it was about.
AddedOrCorrected(r) ==
  LET v == verification[r]
      n == Len(before[r])
      removable == { i \in SeqRange(v.wrong_indices) : i >= 0 /\ i < n }
  IN \/ \E k \in 1..Len(v.corrections) :
          /\ v.corrections[k].index \notin removable
          /\ v.corrections[k].index >= 0 /\ v.corrections[k].index < n
     \/ Len(v.missing) > 0

(***************************************************************************)
(* C36: after every verification round that applied at least one addition  *)
(* or correction and is followed by another round, the dedup of the        *)
(* Geometry Kernel is run on the region's instances before the next verify *)
(* call is issued: while the image of that round is rendered or its call   *)
(* is pending, the instances are the dedup of what the round before left.  *)
(***************************************************************************)
C36_DedupBeforeNextRound ==
  \A r \in DetectorRegions :
    (rpc[r] \in {"building", "verifying"} /\ round[r] > 0 /\ AddedOrCorrected(r)) =>
       instances[r] = dedupeObjectsByGeometry(afterApply[r])

(***************************************************************************)
(* The mapping step of the tiled detections of one kind: what the callback *)
(* of a tile (detectAndVerifyAdaptive) and of a quadrant                   *)
(* (detectOnQuadrants) makes of the instances its detectAndVerifyRegion    *)
(* returned, before the merge.                                             *)
(***************************************************************************)
EdgeThreshold == 15

isBoxClippedAtTileBoundary(tileBox, t, fullImageWidth, fullImageHeight) ==
  LET touchesLeft == tileBox[1] <= EdgeThreshold /\ t.left > 0
      touchesTop == tileBox[2] <= EdgeThreshold /\ t.top > 0
      touchesRight == /\ tileBox[3] >= 1000 - EdgeThreshold
                      /\ t.left + t.width < fullImageWidth
      touchesBottom == /\ tileBox[4] >= 1000 - EdgeThreshold
                       /\ t.top + t.height < fullImageHeight
  IN touchesLeft \/ touchesTop \/ touchesRight \/ touchesBottom

\* detectAndVerifyAdaptive: for (const inst of tileInstances) { ... }
MapTileInstances(insts, t, imageWidth, imageHeight) ==
  LET F[n \in 0..Len(insts)] ==
        IF n = 0 THEN << >>
        ELSE LET tileBox == normalizeBox(insts[n].box_2d)
             IN IF isBoxClippedAtTileBoundary(tileBox, t, imageWidth, imageHeight)
                  THEN F[n - 1]
                  ELSE Append(F[n - 1],
                              [insts[n] EXCEPT
                                 !.box_2d = mapTileBoxToFullImage(tileBox, t, imageWidth,
                                                                  imageHeight)])
  IN F[Len(insts)]

\* Instances of a tile: inside it, at its left edge, at its bottom edge
\* (given with its corners swapped), and at its top right corner.
TileInstances ==
  { Stored("hound", "animal", << 300, 300, 600, 600 >>, {}),
    Stored("stag", "animal", << 10, 300, 400, 600 >>, {}),
    Stored("fox", "animal", << 600, 990, 300, 300 >>, {}),
    Stored("hare", "animal", << 700, 0, 1000, 200 >>, {}) }

MaxTileInstances == 2

MappingArguments ==
  { [fn |-> "mapTileInstances", arg |-> [instances |-> L, region |-> t, image |-> Image]] :
      L \in SeqsUpTo(TileInstances, MaxTileInstances),
      t \in SeqRange(subdivideIntoQuadrants(rootTile(Image.width, Image.height),
                                            Image.width, Image.height)) }
  \cup
  { [fn |-> "mapQuadrantInstances", arg |-> [instances |-> L, region |-> q, image |-> Image]] :
      L \in SeqsUpTo(TileInstances, MaxTileInstances),
      q \in getQuadrantDefs(Image.width, Image.height) }

\* The callback of a tile of detectAndVerifyAdaptive after its
\* detectAndVerifyRegion: the instances it returns to the merge.
MapAdaptiveTile ==
  /\ kernelOp = "none"
  /\ kernelIn.fn = "mapTileInstances"
  /\ kernelOp' = "mapped"
  /\ kernelOut' = MapTileInstances(kernelIn.arg.instances, kernelIn.arg.region,
                                   kernelIn.arg.image.width, kernelIn.arg.image.height)
  /\ UNCHANGED << kernelIn, poolVars, usageVars, detectorVars, runVars, tilerVars,
                  discoveryVars >>

\* The callback of a quadrant of detectOnQuadrants after its
\* detectAndVerifyRegion: the instances it returns to the merge.  Its
\* mapping is, statement by statement, that of the quadrants of runDetection.
MapQuadrant ==
  /\ kernelOp = "none"
  /\ kernelIn.fn = "mapQuadrantInstances"
  /\ kernelOp' = "mapped"
  /\ kernelOut' = MapQuadrantInstances(kernelIn.arg.instances, kernelIn.arg.region)
  /\ UNCHANGED << kernelIn, poolVars, usageVars, detectorVars, runVars, tilerVars,
                  discoveryVars >>

MappingInit ==
  /\ kernelOp = "none"
  /\ kernelIn \in MappingArguments
  /\ kernelOut = << >>
  /\ PoolUnused
  /\ DetectorAtRest
  /\ RunAtRest
  /\ TilerAtRest
  /\ DiscoveryAtRest

MappingNext == MapAdaptiveTile \/ MapQuadrant

MappingSpec == MappingInit /\ [][MappingNext]_vars

\* The instance of the tile that the mapped instance o comes from is
\* boundary-clipped in the tile; an instance keeps its label in the mapping.
FromClippedBox(o) ==
  \E j \in 1..Len(kernelIn.arg.instances) :
    /\ kernelIn.arg.instances[j].label = o.label
    /\ isBoxClippedAtTileBoundary(normalizeBox(kernelIn.arg.instances[j].box_2d),
                                  kernelIn.arg.region,
                                  kernelIn.arg.image.width, kernelIn.arg.image.height)

(***************************************************************************)
(* C37: no instance that enters a tile merge comes from a tile-local box   *)
(* that is boundary-clipped in its own tile, neither on the path of the    *)
(* adaptive tiles nor on that of the immediate four-quadrant split: the    *)
(* mapping step returns no such instance.                                  *)
(***************************************************************************)
C37_NoClippedBoxEntersMerge ==
  (kernelOp = "mapped" /\ kernelIn.fn \in {"mapTileInstances", "mapQuadrantInstances"}) =>
     \A k \in 1..Len(kernelOut) : ~FromClippedBox(kernelOut[k])

(***************************************************************************)
(* The sibling regions of the recursive detector with their detections:    *)
(* the calls of processNode that splitAndRecurse starts for the four       *)
(* quadrants run concurrently, and each pushes what it detects on          *)
(* this.results.                                                           *)
(***************************************************************************)
\* What the detections of a node return.
NodeDetections ==
  { << >>, << Stored("hound", "animal", << 300, 300, 600, 600 >>, {}) >> }

ResultsInit ==
  /\ RecursiveInit
  /\ maxDepth = 1
  /\ PoolUnused
  /\ DetectorAtRest
  /\ RunAtRest
  /\ DiscoveryAtRest
  /\ KernelAtRest

ResultsNext ==
  \/ \E path \in DOMAIN nodes, needsZoom \in BOOLEAN, detected \in NodeDetections :
       ProcessNode(path, needsZoom, detected)
  \/ \E path \in DOMAIN nodes : NodeResolves(path)

ResultsSpec == ResultsInit /\ [][ResultsNext]_vars

\* processNode of the region at path is running.
NodeRuns(path) == path \in DOMAIN nodes /\ nodes[path].status = "processing"

\* The step is one of processNode of the region at path.
StepOfNode(path) == NodeRuns(path) /\ nodes'[path].status # "processing"

\* Two regions split off the same parent.
Siblings(p, q) ==
  /\ p # q
  /\ Len(p) > 0 /\ Len(q) = Len(p)
  /\ SubSeq(p, 1, Len(p) - 1) = SubSeq(q, 1, Len(q) - 1)

(***************************************************************************)
(* C38: the state of the Dispatcher is the only mutable state that         *)
(* concurrently running regions share: a step of a region that runs        *)
(* concurrently with a sibling writes no data structure that the sibling   *)
(* reads or writes, so it leaves the detector's list of results, on which  *)
(* every region pushes, as it is.                                          *)
(***************************************************************************)
C38_SiblingsShareOnlyDispatcher ==
  [][\A p \in DOMAIN nodes :
       (StepOfNode(p) /\ \E q \in DOMAIN nodes : Siblings(p, q) /\ NodeRuns(q))
          => nodeResults' = nodeResults]_vars

(***************************************************************************)
(* C39: the verify step is never invoked on an empty instance set: while a *)
(* verify call is pending, the instances it is about are not empty; in     *)
(* particular no further call is issued once the removals of a round have  *)
(* left zero instances.                                                    *)
(***************************************************************************)
C39_NoVerifyOnEmptySet ==
  \A r \in DetectorRegions : rpc[r] = "verifying" => instances[r] # << >>

(***************************************************************************)
(* The subdivision of one region by the two tilers: subdivideIntoQuadrants *)
(* of the adaptive tiler and the child rectangles of splitAndRecurse, for  *)
(* regions of even and odd sides anywhere in an image.                     *)
(***************************************************************************)
MaxSide == 23

\* The sides of the regions: the four largest, two of them odd.
Sides == (MaxSide - 3)..MaxSide

Offsets == {0, 7}

SplitImage == [width |-> 7 + MaxSide, height |-> 7 + MaxSide]

Regions ==
  { [left |-> l, top |-> tp, width |-> w, height |-> h] :
      l \in Offsets, tp \in Offsets, w \in Sides, h \in Sides }

SplitArguments ==
  { [fn |-> f, arg |-> [region |-> rect, image |-> SplitImage]] :
      f \in {"subdivide", "split"}, rect \in Regions }

\* subdivideIntoQuadrants(tile, fullImageWidth, fullImageHeight)
Subdivide ==
  /\ kernelOp = "none"
  /\ kernelIn.fn = "subdivide"
  /\ kernelOp' = "divided"
  /\ kernelOut' =
       LET rect == kernelIn.arg.region
           t == [row |-> 0, col |-> 0, left |-> rect.left, top |-> rect.top,
                 width |-> rect.width, height |-> rect.height,
                 label |-> << "root" >>, depth |-> 0]
           quadrants == subdivideIntoQuadrants(t, kernelIn.arg.image.width,
                                               kernelIn.arg.image.height)
       IN [i \in 1..Len(quadrants) |->
             [left |-> quadrants[i].left, top |-> quadrants[i].top,
              width |-> quadrants[i].width, height |-> quadrants[i].height]]
  /\ UNCHANGED << kernelIn, poolVars, usageVars, detectorVars, runVars, tilerVars,
                  discoveryVars >>

\* splitAndRecurse(ctx, currentDescription): the rectangles of the children
Split ==
  /\ kernelOp = "none"
  /\ kernelIn.fn = "split"
  /\ kernelOp' = "divided"
  /\ kernelOut' =
       LET ctx == [depth |-> 0, rect |-> kernelIn.arg.region, status |-> "processing"]
           children == ChildContexts(ctx)
       IN [i \in 1..Len(children) |-> children[i].rect]
  /\ UNCHANGED << kernelIn, poolVars, usageVars, detectorVars, runVars, tilerVars,
                  discoveryVars >>

SplitInit ==
  /\ kernelOp = "none"
  /\ kernelIn \in SplitArguments
  /\ kernelOut = << >>
  /\ PoolUnused
  /\ DetectorAtRest
  /\ RunAtRest
  /\ TilerAtRest
  /\ DiscoveryAtRest

SplitNext == Subdivide \/ Split

SplitSpec == SplitInit /\ [][SplitNext]_vars

\* The pixel in column x and row y of the image lies in the rectangle.
PixelIn(x, y, rect) ==
  /\ rect.left <= x /\ x < rect.left + rect.width
  /\ rect.top <= y /\ y < rect.top + rect.height

(***************************************************************************)
(* C40: subdividing a region loses no area: for every parent region, also  *)
(* one of odd width or height, every pixel of the parent lies in at least  *)
(* one of its four child quadrants.                                        *)
(***************************************************************************)
C40_SubdivisionLosesNoArea ==
  kernelOp = "divided" =>
    LET parent == kernelIn.arg.region
    IN \A x \in parent.left..(parent.left + parent.width - 1) :
         \A y \in parent.top..(parent.top + parent.height - 1) :
           \E i \in 1..Len(kernelOut) : PixelIn(x, y, kernelOut[i])

====
